---- MODULE Spec2Model ----
(***************************************************************************)
(* A model of bc-api-client: the request engine of net.ts (request,        *)
(* safeRequest, call) and the client operations of client.ts built on it.  *)
(*                                                                         *)
(* A request in progress is a record of the locals of one activation of    *)
(* request(): its options, retries, lastError and the place it is          *)
(* suspended at (an outstanding transport call, or the retry timer).       *)
(***************************************************************************)
EXTENDS Integers, Sequences, FiniteSets, TLC

VARIABLES
    cfg,      \* the client's config object (client.ts: constructor)
    now,      \* the clock, in ms
    proc,     \* request id -> activation record of request()
    op,       \* the operation invoked: "none", "get", "concurrent", "collect",
              \* "collectV2", "query", "requestToken" or "verify"
    cc,       \* the activation record of concurrent()
    co,       \* the activation record of collect() or collectV2()
    options,  \* the options object the caller passed to the operation
    transport, \* the answers the transport (the remote API) may give
    auth      \* the BigCommerceAuth object and the activation record of its
              \* requestToken() or verify()

vars == <<cfg, now, proc, op, cc, co, options, transport, auth>>

----------------------------------------------------------------------------
(* Bounds of the exploration.                                              *)

\* the largest retry budget a client is configured with
MaxRetriesBound == 2
\* the clock stops advancing here
MaxTime == 3
\* the largest number of request descriptors handed to concurrent()
MaxRequests == 3
\* the largest total_pages a v3 answer reports (at most MaxRequests + 1)
MaxTotalPages == 3

\* the largest page number requested in a run of collectV2()
MaxPages == MaxRequests + 1

\* The requests of one run.  concurrent() runs the request at position j of its
\* list as request j; collect() and collectV2() run the request for page n as
\* request n - 1, so that collect's list of the pages 2.. is at positions 1..
Procs == 0..MaxRequests

----------------------------------------------------------------------------
(* Program constants (net.ts CONFIG, client.ts).                           *)

\* 'https://api.bigcommerce.com/stores/'.length
BASE_URL_LENGTH == 35
MAX_URL_LENGTH == 2048
DEFAULT_MAX_DELAY == 60000
DEFAULT_MAX_RETRIES == 5
DEFAULT_CONCURRENCY == 10
MAX_PAGE_SIZE == 250
\* chunkStrLength: the defaults of maxLength and separatorSize (util.ts)
DEFAULT_MAX_LENGTH == 2048
DEFAULT_SEPARATOR_SIZE == 1
\* 'v2'.length = 'v3'.length
VERSION_LENGTH == 2

----------------------------------------------------------------------------
(* Values.                                                                 *)

\* An optional value is the empty set (undefined) or a singleton.
None == {}
Some(v) == {v}
\* a ?? b
Nullish(a, b) == IF a = {} THEN b ELSE CHOOSE v \in a : TRUE

Max(a, b) == IF a >= b THEN a ELSE b

\* A string, as far as its length is concerned: the number of characters that
\* application/x-www-form-urlencoded leaves alone or maps to one character, and
\* the number of (ASCII) characters it writes as %XX.
Str(p, e) == [plain |-> p, esc |-> e]

\* The length of s as URLSearchParams.toString() serialises it.
FormEncodedLen(s) == s.plain + 3 * s.esc

RECURSIVE SumPairs(_)
\* The summed length of the "key=value" pairs of a query, without separators.
SumPairs(q) ==
    IF q = <<>> THEN 0
    ELSE FormEncodedLen(Head(q)[1]) + 1 + FormEncodedLen(Head(q)[2]) + SumPairs(Tail(q))

\* new URLSearchParams(query).toString().length
SearchParamsLen(q) == IF q = <<>> THEN 0 ELSE SumPairs(q) + (Len(q) - 1)

\* fullUrl.length in call(): base, store hash, '/', version, '/', the endpoint
\* without its leading slash, and '?' + search params when there are any.
FullUrlLen(o) ==
    LET url == BASE_URL_LENGTH + o.storeHash.len + 1 + VERSION_LENGTH + 1 + o.endpoint.len
        searchParams == IF o.query = None THEN 0 ELSE SearchParamsLen(Nullish(o.query, <<>>))
    IN  IF searchParams > 0 THEN url + 1 + searchParams ELSE url

\* The mutant of UrlTooLong that rejects a URL of exactly the maximum length.
UrlTooLongAtLimit(o) == FullUrlLen(o) >= MAX_URL_LENGTH

\* call(): if (fullUrl.length > CONFIG.MAX_URL_LENGTH)
UrlTooLong(o) == FullUrlLen(o) > MAX_URL_LENGTH

----------------------------------------------------------------------------
(* Number.parseInt on a header value.                                      *)

Digits == {"0", "1", "2", "3", "4", "5", "6", "7", "8", "9"}

DigitVal(c) ==
    CASE c = "0" -> 0 [] c = "1" -> 1 [] c = "2" -> 2 [] c = "3" -> 3 [] c = "4" -> 4
      [] c = "5" -> 5 [] c = "6" -> 6 [] c = "7" -> 7 [] c = "8" -> 8 [] c = "9" -> 9

NaN == [nan |-> TRUE, val |-> 0]
Num(n) == [nan |-> FALSE, val |-> n]

RECURSIVE SkipSpace(_)
SkipSpace(s) == IF s # <<>> /\ Head(s) = " " THEN SkipSpace(Tail(s)) ELSE s

RECURSIVE DigitPrefix(_)
\* the longest prefix of s made of digits
DigitPrefix(s) ==
    IF s # <<>> /\ Head(s) \in Digits THEN <<Head(s)>> \o DigitPrefix(Tail(s)) ELSE <<>>

RECURSIVE DecimalValue(_, _)
DecimalValue(ds, acc) ==
    IF ds = <<>> THEN acc ELSE DecimalValue(Tail(ds), 10 * acc + DigitVal(Head(ds)))

\* Number.parseInt(h) for a header h: undefined (None) reads as the text
\* "undefined"; leading white space is skipped, a sign is taken, then the longest
\* run of digits; what follows the digits is ignored; no digit gives NaN.
ParseInt(h) ==
    IF h = None THEN NaN
    ELSE LET s == SkipSpace(Nullish(h, <<>>))
             neg == s # <<>> /\ Head(s) = "-"
             body == IF s # <<>> /\ Head(s) \in {"-", "+"} THEN Tail(s) ELSE s
             ds == DigitPrefix(body)
         IN  IF ds = <<>> THEN NaN
             ELSE Num(IF neg THEN 0 - DecimalValue(ds, 0) ELSE DecimalValue(ds, 0))

----------------------------------------------------------------------------
(* The transport (ky) and what it answers.                                 *)

\* A response of the transport: kind "ok" is a resolved ky call (a 2xx answer),
\* "http" a thrown HTTPError (a non-2xx answer), "net" any other thrown error (no
\* HTTP response).  hdr is the x-rate-limit-time-reset-ms header: absent, or its
\* text as a sequence of characters.  body is the text of the answer.
Response(k, st, h, b) == [kind |-> k, status |-> st, hdr |-> h, body |-> b]
NoResponse == Response("none", 0, None, "")

\* A parsed JSON document, as far as the client reads it: whether it is an
\* array and then its items (a v2 page), else its data property (absent, an
\* array of items or a single object) and its meta.pagination.total_pages
\* (absent or a number).  An item is written as its id.
Json(isArray, items, data, total) ==
    [isArray |-> isArray, items |-> items, data |-> data, total_pages |-> total]
Data(isArray, items) == [isArray |-> isArray, items |-> items]
\* [{id}, ...]
List(items) == Json(TRUE, items, None, None)
\* {data: [{id}, ...], meta: {pagination: {total_pages}}}
Page(items, total) == Json(FALSE, <<>>, Some(Data(TRUE, items)), total)
\* {data: {id}, meta: {pagination: {total_pages}}}
Single(id, total) == Json(FALSE, <<>>, Some(Data(FALSE, <<id>>)), total)
\* an object with neither data nor meta
PlainObject == Json(FALSE, <<>>, None, None)

\* The documents of the remote API in this model, each with its text: v3 pages
\* that report MaxTotalPages pages (written N in the text), one page and no
\* pagination, a single v3 resource, and v2 pages.
JsonTable ==
    { << "{data:[{id:1}],meta:{pagination:{total_pages:N}}}", Page(<<1>>, Some(MaxTotalPages)) >>,
      << "{data:[{id:2},{id:3}],meta:{pagination:{total_pages:1}}}", Page(<<2, 3>>, Some(1)) >>,
      << "{data:[{id:4}]}", Page(<<4>>, None) >>,
      << "{data:{id:5},meta:{pagination:{total_pages:2}}}", Single(5, Some(2)) >>,
      << "[{id:6}]", List(<<6>>) >>,
      << "[{id:7},{id:8}]", List(<<7, 8>>) >>,
      << "[]", List(<<>>) >> }

V3Docs ==
    { Page(<<1>>, Some(MaxTotalPages)), Page(<<2, 3>>, Some(1)), Page(<<4>>, None),
      Single(5, Some(2)) }
V2Docs == { List(<<6>>), List(<<7, 8>>), List(<<>>) }

\* The text of a document of the table (JSON.stringify, without the quotes).
JsonText(d) == (CHOOSE t \in JsonTable : t[2] = d)[1]

JsonTexts == { t[1] : t \in JsonTable }

\* JSON.parse(text) of a text that parses: the document with this text; the
\* texts "{..}" and "{m}" stand for objects without data and meta.
JsonParse(b) ==
    IF b \in JsonTexts THEN (CHOOSE t \in JsonTable : t[1] = b)[2] ELSE PlainObject

\* the JSON text that parses to null
NullText == "null"

\* Body texts: "{..}" parses to an object without a message field, "{m}" to an
\* object with one, the texts of the documents parse to them, "null" to null;
\* "<html>" and the empty text do not parse.
Parses(b) == b \in {"{..}", "{m}", NullText} \/ b \in JsonTexts
HasMessage(b) == b = "{m}"

HeaderTexts ==
    { None, Some(<<>>), Some(<<"x">>), Some(<<"0">>), Some(<<"1">>), Some(<<"2">>),
      Some(<<"-", "1">>), Some(<<"1", "x">>) }

Responses ==
    { Response("ok", 200, None, "{..}"), Response("ok", 200, None, "{m}"),
      Response("ok", 200, None, "<html>"),
      Response("ok", 204, None, ""),
      Response("http", 400, Some(<<"0">>), "{m}"), Response("http", 404, None, "<html>"),
      Response("net", 0, None, "") }
    \cup { Response("http", 429, h, "{..}") : h \in HeaderTexts }

----------------------------------------------------------------------------
(* Errors and results.                                                     *)

\* A thrown value.  cls "RequestError" is the class of net.ts; cls "Error" is any
\* other thrown value, whose status property is undefined (written 0).  data is
\* the third constructor argument: a string (dataObject FALSE) or the object
\* {data, headers} built from the response in resp (dataObject TRUE).
Err(c, st, m, obj, r) == [cls |-> c, status |-> st, msg |-> m, dataObject |-> obj, resp |-> r]
NoError == Err("null", 0, "", FALSE, NoResponse)

\* call(): new RequestError(400, 'URL too long', `URL length ...`)
UrlTooLongError == Err("RequestError", 400, "URL too long", FALSE, NoResponse)
\* request(): new RequestError(500, 'Failed to make request', 'Too many retries ...')
GenericError == Err("RequestError", 500, "Failed to make request", FALSE, NoResponse)

\* What safeRequest() settles with.
Fulfilled(v) == [ok |-> TRUE, value |-> v, error |-> NoError]
Rejected(e) == [ok |-> FALSE, value |-> "", error |-> e]

\* the value of a 204 answer
Undefined == "undefined"

\* The mutant of SafeRequest that parses the body of every 2xx answer, also
\* that of a 204.
SafeRequestParseFirst(r) ==
    CASE r.kind = "net" ->
            Rejected(Err("Error", 0, "fetch failed", FALSE, NoResponse))
      [] r.kind = "http" ->
            Rejected(Err("RequestError", r.status,
                         IF Parses(r.body) /\ HasMessage(r.body) THEN "data.message" ELSE "error.message",
                         TRUE, r))
      [] r.kind = "ok" ->
            IF Parses(r.body) THEN Fulfilled(r.body)
            ELSE Rejected(Err("RequestError", r.status, "Failed to parse response", FALSE, r))

\* safeRequest() from the point where call() has settled with response r.
SafeRequest(r) ==
    CASE r.kind = "net" ->
            \* not an HTTPError: logged and re-thrown as it is
            Rejected(Err("Error", 0, "fetch failed", FALSE, NoResponse))
      [] r.kind = "http" ->
            Rejected(Err("RequestError", r.status,
                         IF Parses(r.body) /\ HasMessage(r.body) THEN "data.message" ELSE "error.message",
                         TRUE, r))
      [] r.kind = "ok" ->
            IF r.status = 204 THEN Fulfilled(Undefined)
            ELSE IF Parses(r.body) THEN Fulfilled(r.body)
            ELSE Rejected(Err("RequestError", r.status, "Failed to parse response", FALSE, r))

----------------------------------------------------------------------------
(* request(): the retry loop.                                              *)

\* The activation record of one request() call.
\*   pc       "idle" (not called), "inflight" (awaiting the transport), "wait"
\*            (awaiting the retry timer), "fulfilled" or "rejected" (settled)
\*   history  the responses the transport gave to this request, in order
\*   ncalls   the number of transport calls made; nwaits the timers started
\*   sentAt   the time of the last transport call, recvAt of the last response;
\*   wakeAt   when the retry timer is due
\*   rank     the place of this request among the requests of the run in the
\*            order of settling (0: not settled, or settled when dispatched)
IdleProc ==
    [ pc |-> "idle", opts |-> None, retries |-> 0, lastError |-> NoError,
      value |-> "", error |-> NoError, history |-> <<>>, ncalls |-> 0, nwaits |-> 0,
      sentAt |-> 0, recvAt |-> 0, wakeAt |-> 0, rank |-> 0 ]

OptsOf(p) == CHOOSE o \in p.opts : TRUE

\* const { maxDelay = DEFAULT_MAX_DELAY, maxRetries = DEFAULT_MAX_RETRIES } = options
MaxDelayOf(p) == Nullish(OptsOf(p).maxDelay, DEFAULT_MAX_DELAY)
MaxRetriesOf(p) == Nullish(OptsOf(p).maxRetries, DEFAULT_MAX_RETRIES)

Throw(p, e) == [p EXCEPT !.pc = "rejected", !.error = e]
Return(p, v) == [p EXCEPT !.pc = "fulfilled", !.value = v]

\* The mutant of LoopTest that allows one iteration more.
LoopTestInclusive(retries, maxRetries) == retries <= maxRetries

\* while (retries < maxRetries)
LoopTest(retries, maxRetries) == retries < maxRetries

\* The mutant of Loop that tests the budget after the first attempt only
\* (a do-while loop).
LoopAttemptFirst(p, t) ==
    IF p.retries = 0 \/ LoopTest(p.retries, MaxRetriesOf(p))
    THEN IF UrlTooLong(OptsOf(p))
         THEN Throw([p EXCEPT !.lastError = UrlTooLongError], UrlTooLongError)
         ELSE [p EXCEPT !.pc = "inflight", !.ncalls = @ + 1, !.sentAt = t]
    ELSE Throw(p, IF p.lastError = NoError THEN GenericError ELSE p.lastError)

\* The head of the loop, up to the first suspension: the loop test, then
\* safeRequest() -> call(), which throws 'URL too long' or calls the transport.
\* An exhausted loop throws lastError ?? the generic error.
Loop(p, t) ==
    IF LoopTest(p.retries, MaxRetriesOf(p))
    THEN IF UrlTooLong(OptsOf(p))
         THEN \* caught by the catch of request(): not a 429, re-thrown
              Throw([p EXCEPT !.lastError = UrlTooLongError], UrlTooLongError)
         ELSE [p EXCEPT !.pc = "inflight", !.ncalls = @ + 1, !.sentAt = t]
    ELSE Throw(p, IF p.lastError = NoError THEN GenericError ELSE p.lastError)

\* The mutant of RateLimited that retries every answer that carries headers.
RateLimitedAnyStatus(err) == err.dataObject

\* err.status === 429 && typeof err.data === 'object' && err.data !== null
\*   && 'headers' in err.data
RateLimited(err) == err.status = 429 /\ err.dataObject

\* The mutant of DelayTooLong that compares with the default, not the option.
DelayTooLongDefault(retryAfter, maxDelay) == retryAfter > DEFAULT_MAX_DELAY

\* if (retryAfter > maxDelay)
DelayTooLong(retryAfter, maxDelay) == retryAfter > maxDelay

\* setTimeout(resolve, ms) is due ms from now; a negative ms is due at once.
TimerDue(t, ms) == t + Max(ms, 0)

\* The mutant of KeepLastError that keeps the first error observed.
KeepFirstError(p, err) == IF p.lastError = NoError THEN err ELSE p.lastError

\* lastError = err
KeepLastError(p, err) == err

\* The mutant of Catch that does not wait when no retry is left.
CatchSkipFinalWait(p, err, t) ==
    LET q == [p EXCEPT !.lastError = KeepLastError(p, err)] IN
    IF RateLimited(err)
    THEN LET retryAfter == ParseInt(err.resp.hdr) IN
         IF retryAfter.nan
         THEN Throw(q, Err("RequestError", err.status, "Failed to parse retry after", TRUE, err.resp))
         ELSE IF DelayTooLong(retryAfter.val, MaxDelayOf(q))
         THEN Throw(q, Err("RequestError", err.status, "Rate limit exceeded", TRUE, err.resp))
         ELSE IF q.retries + 1 >= MaxRetriesOf(q) THEN Throw(q, err)
         ELSE [q EXCEPT !.pc = "wait", !.nwaits = @ + 1, !.wakeAt = TimerDue(t, retryAfter.val)]
    ELSE Throw(q, err)

\* The catch block of request() for the thrown value err, at time t.
Catch(p, err, t) ==
    LET q == [p EXCEPT !.lastError = KeepLastError(p, err)] IN
    IF RateLimited(err)
    THEN LET retryAfter == ParseInt(err.resp.hdr) IN
         IF retryAfter.nan
         THEN Throw(q, Err("RequestError", err.status, "Failed to parse retry after", TRUE, err.resp))
         ELSE IF DelayTooLong(retryAfter.val, MaxDelayOf(q))
         THEN Throw(q, Err("RequestError", err.status, "Rate limit exceeded", TRUE, err.resp))
         ELSE [q EXCEPT !.pc = "wait", !.nwaits = @ + 1, !.wakeAt = TimerDue(t, retryAfter.val)]
    ELSE Throw(q, err)

\* request(options) is called at time t.
Start(o, t) == Loop([IdleProc EXCEPT !.opts = Some(o)], t)

\* The transport settles the outstanding call of p with r.
OnResponse(p, r, t) ==
    LET q == [p EXCEPT !.history = Append(@, r), !.recvAt = t]
        out == SafeRequest(r)
    IN  IF out.ok THEN Return(q, out.value) ELSE Catch(q, out.error, t)

\* The retry timer fires: retries++; continue
OnTimer(p, t) == Loop([p EXCEPT !.retries = @ + 1], t)

Settled(p) == p.pc \in {"fulfilled", "rejected"}

\* q, the next record of a request of pr, with its place in the order of
\* settling noted when the step settles it.
Stamp(pr, q) ==
    IF Settled(q)
    THEN [q EXCEPT !.rank = Cardinality({ j \in DOMAIN pr : Settled(pr[j]) }) + 1]
    ELSE q

----------------------------------------------------------------------------
(* Authentication (auth.ts): the values.                                   *)

ISSUER == "bc"

\* An Error of auth.ts: its message; for a scope mismatch the two scope strings
\* the message names; its cause.
AuthError(m, granted, expected, cause) ==
    [msg |-> m, granted |-> granted, expected |-> expected, cause |-> cause]
NoAuthError == AuthError("", <<>>, <<>>, "")

\* Undefined.split: a TypeError
SplitOfUndefined == AuthError("TypeError", <<>>, <<>>, "")

\* The data of an auth callback: its form ("string", "params" for a
\* URLSearchParams, "object" for an AuthQuery) and the code, scope and context
\* it holds, each absent or a text (a sequence of characters).  A query string
\* is written as the entries it parses to.
AuthData(f, code, scope, context) ==
    [form |-> f, code |-> code, scope |-> scope, context |-> context]
NoAuthData == AuthData("object", None, None, None)

\* A JWT: whether it is well formed, the secret it is signed with, its aud,
\* iss and sub claims and its expiry.
Jwt(wf, key, aud, iss, sub, exp) ==
    [wellFormed |-> wf, key |-> key, aud |-> aud, iss |-> iss, sub |-> sub, exp |-> exp]
NoJwt == Jwt(FALSE, "", "", "", "", 0)

\* The BigCommerceAuth object (config) and the locals of its operation: what
\* it was called with, the number of calls of the token endpoint, the token
\* request, and what the operation returned or rejected with.
IdleAuth ==
    [ config |-> [clientId |-> "client", secret |-> "secret", redirectUri |-> "uri",
                  scopes |-> None],
      pc |-> "idle", data |-> NoAuthData, calls |-> 0, request |-> None,
      jwt |-> NoJwt, storeHash |-> "", value |-> None, error |-> NoAuthError ]

----------------------------------------------------------------------------
(* The client (client.ts).                                                 *)

\* The mutant of Merge that spreads the descriptor over the config.
MergeConfigFirst(d, c) ==
    [ endpoint |-> d.endpoint, query |-> d.query,
      storeHash |-> IF d.storeHash = None THEN c.storeHash ELSE CHOOSE h \in d.storeHash : TRUE,
      accessToken |-> IF d.accessToken = None THEN c.accessToken
                      ELSE CHOOSE a \in d.accessToken : TRUE,
      version |-> d.version, maxDelay |-> c.maxDelay, maxRetries |-> c.maxRetries ]

\* { ...options, ...this.config }: the descriptor d with the client's config
\* spread over it; the storeHash and accessToken of the config replace those
\* that the descriptor carries.
Merge(d, c) ==
    [ endpoint |-> d.endpoint, query |-> d.query,
      storeHash |-> c.storeHash, accessToken |-> c.accessToken,
      version |-> d.version, maxDelay |-> c.maxDelay, maxRetries |-> c.maxRetries ]

\* A request descriptor: its endpoint and query, its version when it names
\* one (call() takes v3 otherwise), and the storeHash and accessToken it
\* carries if the caller put them there.
Descriptor(e, q) ==
    [endpoint |-> e, query |-> q, version |-> None, storeHash |-> None, accessToken |-> None]
\* an endpoint: whether it is written with a leading slash, and its length
\* without it
Endpoint(n) == [len |-> n]

\* Queries: none, {}, {limit: '250'}, and two with characters that are encoded:
\* {k: ',,a'} and {k: ',,ab'}.
Queries ==
    { None, Some(<<>>), Some(<< <<Str(5, 0), Str(3, 0)>> >>),
      Some(<< <<Str(1, 0), Str(1, 2)>> >>), Some(<< <<Str(1, 0), Str(2, 2)>> >>) }

\* Endpoints around the URL length limit for a store hash of 4 characters.
Endpoints == { Endpoint(16), Endpoint(1995), Endpoint(2005), Endpoint(2006) }

Descriptors == { Descriptor(e, q) : e \in Endpoints, q \in Queries }

StoreHash == [name |-> "test", len |-> 4]
\* another store
OtherStoreHash == [name |-> "shop", len |-> 4]
\* a descriptor that names the other store and a credential of its own
ForeignDescriptor(e, q) ==
    [ endpoint |-> e, query |-> q, version |-> None,
      storeHash |-> Some(OtherStoreHash), accessToken |-> Some("other") ]

Configs ==
    [ storeHash : {StoreHash}, accessToken : {"token"},
      maxDelay : {None, Some(0), Some(1)},
      maxRetries : {None} \cup { Some(n) : n \in (0 - 1)..MaxRetriesBound },
      concurrency : {None}, skipErrors : {None} ]

IdleCC ==
    [ pc |-> "idle", requests |-> <<>>, size |-> 0, skipErrors |-> FALSE, k |-> 0,
      results |-> <<>>, error |-> NoError ]

\* no options object
NoOptions == [concurrency |-> None, skipErrors |-> None]

\* The locals of collect() and collectV2(): results; for collectV2 page, done and
\* concurrency (size).  value is what the operation returned, error what it
\* rejected with; given is the options object as it was when the call was made.
IdleCO ==
    [ pc |-> "idle", endpoint |-> Endpoint(0), given |-> NoOptions, results |-> <<>>,
      page |-> 1, size |-> 0, done |-> FALSE, value |-> None, error |-> NoError ]

Init ==
    /\ cfg \in Configs
    /\ now = 0
    /\ proc = [i \in Procs |-> IdleProc]
    /\ op = "none"
    /\ cc = IdleCC
    /\ co = IdleCO
    /\ options = NoOptions
    /\ auth = IdleAuth
    /\ transport = Responses

\* client.get(endpoint, options): request({endpoint, method: 'GET', ...options,
\* ...this.config})
Get ==
    /\ op = "none"
    /\ \E d \in Descriptors :
          proc' = [proc EXCEPT ![1] = Start(Merge(d, cfg), now)]
    /\ op' = "get"
    /\ UNCHANGED <<cfg, now, cc, co, options, transport, auth>>

\* The transport settles the outstanding call of request i.
Respond(i) ==
    /\ proc[i].pc = "inflight"
    /\ \E r \in transport :
          proc' = [proc EXCEPT ![i] = Stamp(proc, OnResponse(proc[i], r, now))]
    /\ UNCHANGED <<cfg, now, op, cc, co, options, transport, auth>>

\* The mutant of TimerReady that lets the timer fire at once.
TimerReadyAtOnce(p, t) == TRUE

\* The timer set by setTimeout fires no earlier than it is due.
TimerReady(p, t) == t >= p.wakeAt

\* The retry timer of request i fires.
WakeUp(i) ==
    /\ proc[i].pc = "wait"
    /\ TimerReady(proc[i], now)
    /\ proc' = [proc EXCEPT ![i] = Stamp(proc, OnTimer(proc[i], now))]
    /\ UNCHANGED <<cfg, now, op, cc, co, options, transport, auth>>

\* Time passes while a timer is pending.
Tick ==
    /\ now < MaxTime
    /\ \E i \in Procs : proc[i].pc = "wait" /\ now < proc[i].wakeAt
    /\ now' = now + 1
    /\ UNCHANGED <<cfg, proc, op, cc, co, options, transport, auth>>

Next ==
    \/ Get
    \/ \E i \in Procs : Respond(i)
    \/ \E i \in Procs : WakeUp(i)
    \/ Tick

Spec == Init /\ [][Next]_vars

----------------------------------------------------------------------------
(* concurrent(): batches of requests (client.ts).                          *)

\* The mutant of ChunkOf whose pieces hold one element more than size.
ChunkOfOneMore(n, size, k) == { j \in 1..n : (k - 1) * size < j /\ j <= k * size + 1 }

\* remeda's chunk(requests, size), as the positions of chunk k: the list is cut
\* into consecutive pieces of size elements, the last one possibly shorter.
ChunkOf(n, size, k) == { j \in 1..n : (k - 1) * size < j /\ j <= k * size }
NumChunks(n, size) == (n + size - 1) \div size

\* options?.concurrency ?? this.config.concurrency ?? DEFAULT_CONCURRENCY
ConcurrencyOf(o, c) == Nullish(o.concurrency, Nullish(c.concurrency, DEFAULT_CONCURRENCY))
\* The mutant of SkipErrorsOf that lets the client's setting override the call's.
SkipErrorsOfClientFirst(o, c) == Nullish(c.skipErrors, Nullish(o.skipErrors, FALSE))

\* options?.skipErrors ?? this.config.skipErrors ?? false
SkipErrorsOf(o, c) == Nullish(o.skipErrors, Nullish(c.skipErrors, FALSE))

\* The mutant of OnRejected that puts undefined in the list for a failure that
\* is skipped.
OnRejectedPushUndefined(acc, reason, skipErrors) ==
    IF ~skipErrors THEN [acc EXCEPT !.thrown = TRUE, !.error = reason]
    ELSE [acc EXCEPT !.results = Append(@, Undefined)]

\* The mutant of OnRejected that drops a failure in fail-fast mode too.
OnRejectedIgnore(acc, reason, skipErrors) == acc

\* The mutant of OnRejected that throws in best-effort mode too.
OnRejectedThrow(acc, reason, skipErrors) == [acc EXCEPT !.thrown = TRUE, !.error = reason]

\* The else branch of the forEach callback: throw response.reason unless
\* skipErrors (then console.warn).
OnRejected(acc, reason, skipErrors) ==
    IF ~skipErrors THEN [acc EXCEPT !.thrown = TRUE, !.error = reason] ELSE acc

\* results.push(response.value)
OnFulfilled(acc, value) == [acc EXCEPT !.results = Append(@, value)]

\* The mutant of NextResponse that visits the last position first.
NextResponseFromLast(js, pr) == CHOOSE x \in js : \A y \in js : x >= y

\* The mutant of NextResponse that takes the responses in the order in which
\* the requests settled.
NextResponseBySettling(js, pr) == CHOOSE x \in js : \A y \in js : pr[x].rank <= pr[y].rank

\* Promise.allSettled resolves with the outcomes in the order of the promises it
\* was given, so forEach visits the lowest position first.
NextResponse(js, pr) == CHOOSE x \in js : \A y \in js : x <= y

RECURSIVE ForEach(_, _, _, _)
\* responses.forEach(...) over the settled requests js (ascending positions),
\* from the accumulator acc = [results, thrown, error]; a throw ends the loop.
ForEach(js, pr, acc, skipErrors) ==
    IF js = {} \/ acc.thrown THEN acc
    ELSE LET j == NextResponse(js, pr)
             next == IF pr[j].pc = "fulfilled"
                     THEN OnFulfilled(acc, pr[j].value)
                     ELSE OnRejected(acc, pr[j].error, skipErrors)
         IN  ForEach(js \ {j}, pr, next, skipErrors)

\* The for loop of concurrent() from chunk c.k on, up to its next suspension:
\* with no chunk left it returns results; otherwise every request of the chunk is
\* started (chunk.map) and the loop awaits Promise.allSettled.
\* Gives the new <<cc, proc>>.
RunChunks(c, pr, conf, t) ==
    IF c.k > NumChunks(Len(c.requests), c.size)
    THEN << [c EXCEPT !.pc = "resolved"], pr >>
    ELSE << [c EXCEPT !.pc = "awaiting"],
            [ j \in Procs |->
                IF j \in ChunkOf(Len(c.requests), c.size, c.k)
                THEN Start(Merge(c.requests[j], conf), t) ELSE pr[j] ] >>

\* What the requests handed to concurrent() in this model are drawn from.
ConcurrentDescriptors ==
    { Descriptor(Endpoint(16), None), Descriptor(Endpoint(2006), None) }

\* The lists of requests: of at most MaxRequests descriptors, the first of
\* which may name another store and credential.
RequestLists ==
    UNION { [1..n -> ConcurrentDescriptors] : n \in 0..MaxRequests }
    \cup { << ForeignDescriptor(Endpoint(16), None) >> \o rest :
              rest \in UNION { [1..n -> ConcurrentDescriptors] : n \in 0..(MaxRequests - 1) } }

ConcurrencyOptions ==
    [ concurrency : {None, Some(2)}, skipErrors : {None, Some(FALSE)} ]

\* client.concurrent(requests, options)
Concurrent ==
    /\ op = "none"
    /\ \E reqs \in RequestLists, o \in ConcurrencyOptions :
          LET c == [IdleCC EXCEPT !.requests = reqs, !.size = ConcurrencyOf(o, cfg),
                                  !.skipErrors = SkipErrorsOf(o, cfg), !.k = 1]
              run == RunChunks(c, proc, cfg, now)
          IN  cc' = run[1] /\ proc' = run[2] /\ options' = o
    /\ op' = "concurrent"
    /\ UNCHANGED <<cfg, now, co, transport, auth>>

\* The mutant of AllSettled that resolves with the first request to settle, as
\* Promise.race does.
AnySettled(js, pr) == \E j \in js : Settled(pr[j])

\* await Promise.allSettled(...): resolves once every request of js has settled.
AllSettled(js, pr) == \A j \in js : Settled(pr[j])

\* Promise.allSettled of the current chunk resolves: the forEach over its
\* responses, then the next iteration of the for loop.
BatchSettled ==
    /\ cc.pc = "awaiting"
    /\ LET js == ChunkOf(Len(cc.requests), cc.size, cc.k) IN
       /\ AllSettled(js, proc)
       /\ \E acc \in { ForEach(js, proc, [results |-> cc.results, thrown |-> FALSE, error |-> NoError],
                                 cc.skipErrors) } :
             IF acc.thrown
             THEN /\ cc' = [cc EXCEPT !.pc = "rejected", !.results = acc.results, !.error = acc.error]
                  /\ proc' = proc
             ELSE \E run \in { RunChunks([cc EXCEPT !.results = acc.results, !.k = @ + 1], proc, cfg, now) } :
                     cc' = run[1] /\ proc' = run[2]
    /\ UNCHANGED <<cfg, now, op, co, options, transport, auth>>

\* The answers of the transport explored under concurrent().
ConcurrentResponses ==
    { Response("ok", 200, None, "{..}"), Response("ok", 200, None, "{m}"),
      Response("http", 400, Some(<<"0">>), "{m}"), Response("http", 429, Some(<<"0">>), "{..}") }

ConcurrentConfigs ==
    [ storeHash : {StoreHash}, accessToken : {"token"},
      maxDelay : {Some(1)}, maxRetries : {Some(2)},
      concurrency : {None, Some(1)}, skipErrors : {None, Some(TRUE)} ]

InitConcurrent ==
    /\ cfg \in ConcurrentConfigs
    /\ now = 0
    /\ proc = [i \in Procs |-> IdleProc]
    /\ op = "none"
    /\ cc = IdleCC
    /\ co = IdleCO
    /\ options = NoOptions
    /\ auth = IdleAuth
    /\ transport = ConcurrentResponses

NextConcurrent ==
    \/ Concurrent
    \/ BatchSettled
    \/ \E i \in Procs : Respond(i)
    \/ \E i \in Procs : WakeUp(i)

SpecConcurrent == InitConcurrent /\ [][NextConcurrent]_vars

----------------------------------------------------------------------------
(* Query objects with named entries (client.ts: collect, collectV2).       *)

\* A key and a value made of characters that URLSearchParams leaves alone, with
\* their text: the key's as a string, the value's as a sequence of characters.
Key(s) == [plain |-> Len(s), esc |-> 0, text |-> s]
Val(cs) == [plain |-> Len(cs), esc |-> 0, text |-> cs]

DigitChar(d) == CHOOSE c \in Digits : DigitVal(c) = d

RECURSIVE Numeral(_)
\* n.toString() for a natural number n
Numeral(n) ==
    IF n < 10 THEN <<DigitChar(n)>> ELSE Numeral(n \div 10) \o <<DigitChar(n % 10)>>

\* A query object is the sequence of its entries <<key, value>> in insertion
\* order.  q[k], as an optional value:
HasKey(q, k) == \E i \in 1..Len(q) : q[i][1].text = k
Lookup(q, k) ==
    IF HasKey(q, k) THEN Some(q[CHOOSE i \in 1..Len(q) : q[i][1].text = k][2]) ELSE None
\* q[k] = v, or {...q, [k]: v}: an entry that exists keeps its place
Assign(q, k, v) ==
    IF HasKey(q, k)
    THEN [i \in 1..Len(q) |-> IF q[i][1].text = k THEN <<q[i][1], v>> ELSE q[i]]
    ELSE Append(q, <<Key(k), v>>)
\* an optional string is truthy when it is there and not empty
Truthy(v) == v # None /\ Nullish(v, Val(<<>>)).text # <<>>

\* The mutant of DefaultLimit that overwrites a limit the caller gave.
DefaultLimitAlways(q) ==
    Some(Assign(Nullish(q, <<>>), "limit", Val(Numeral(MAX_PAGE_SIZE))))

\* The head of collect, collectV2 and query, on the caller's options.query:
\* if (options.query) { if (!options.query.limit) options.query.limit = '250' }
\* else options.query = { limit: '250' }
DefaultLimit(q) ==
    IF q = None THEN Some(<< <<Key("limit"), Val(Numeral(MAX_PAGE_SIZE))>> >>)
    ELSE IF ~Truthy(Lookup(Nullish(q, <<>>), "limit"))
         THEN Some(Assign(Nullish(q, <<>>), "limit", Val(Numeral(MAX_PAGE_SIZE))))
         ELSE q

\* { ...options, endpoint, query: { ...options.query, page: page.toString() } }
PageRequest(e, q, page) == Descriptor(e, Some(Assign(Nullish(q, <<>>), "page", Val(Numeral(page)))))

\* { ...options, endpoint, version: 'v2', query: { ...options.query, page } }
V2PageRequest(e, q, page) == [PageRequest(e, q, page) EXCEPT !.version = Some("v2")]

----------------------------------------------------------------------------
(* collect(): all pages of a v3 resource (client.ts).                      *)

\* Array.isArray(x) for an optional data value
IsArray(data) == data # None /\ Nullish(data, Data(FALSE, <<>>)).isArray
ItemsOf(data) == Nullish(data, Data(FALSE, <<>>)).items
\* first?.meta?.pagination?.total_pages is truthy
Paginated(d) == d.total_pages # None /\ Nullish(d.total_pages, 0) # 0

\* reading a property of undefined, or spreading what is not iterable
TypeError == Err("TypeError", 0, "TypeError", FALSE, NoResponse)

\* The mutant of RemainingPages that asks for a page after the last one too.
RemainingPagesOneMore(pages) == [j \in 1..pages |-> j + 1]

\* The mutant of RemainingPages that asks for the first page again.
RemainingPagesFromFirst(pages) == [j \in 1..pages |-> j]

\* range(2, pages + 1)
RemainingPages(pages) == [j \in 1..(pages - 1) |-> j + 1]

\* The mutant of PushData that puts the items of a page in front.
PushDataInFront(results, items) == items \o results

\* results.push(...items)
PushData(results, items) == results \o items

\* results.push(...response.data) for one response of concurrent(): undefined
\* has no data, and a data that is no array cannot be spread.
PushResponse(acc, value) ==
    IF value = Undefined \/ ~IsArray(JsonParse(value).data)
    THEN [acc EXCEPT !.thrown = TRUE, !.error = TypeError]
    ELSE [acc EXCEPT !.results = PushData(@, ItemsOf(JsonParse(value).data))]

RECURSIVE PushAll(_, _)
\* responses.forEach((response) => results.push(...response.data))
PushAll(responses, acc) ==
    IF responses = <<>> \/ acc.thrown THEN acc
    ELSE PushAll(Tail(responses), PushResponse(acc, Head(responses)))

CollectEndpoints == { Endpoint(16) }

\* The caller's query: none, {limit: '2'}, {sort: 'id'} and {limit: ''}.
CollectQueries ==
    { None, Some(<< <<Key("limit"), Val(<<"2">>)>> >>),
      Some(<< <<Key("sort"), Val(<<"i", "d">>)>> >>),
      Some(<< <<Key("limit"), Val(<<>>)>> >>) }

CollectOptions ==
    [ query : CollectQueries, concurrency : {None, Some(2)}, skipErrors : {None} ]

\* client.collect(endpoint, options), up to the await of the first page.
Collect ==
    /\ op = "none"
    /\ \E e \in CollectEndpoints, o \in CollectOptions :
          LET opt == [o EXCEPT !.query = DefaultLimit(o.query)] IN
          /\ options' = opt
          /\ co' = [IdleCO EXCEPT !.pc = "first", !.endpoint = e, !.given = o]
          /\ proc' = [proc EXCEPT ![0] = Start(Merge(Descriptor(e, opt.query), cfg), now)]
    /\ op' = "collect"
    /\ UNCHANGED <<cfg, now, cc, transport, auth>>

\* The first page has settled: collect rejects with its failure, returns
\* first.data, or calls concurrent() for the remaining pages.
FirstPage ==
    /\ op = "collect" /\ co.pc = "first" /\ Settled(proc[0])
    /\ IF proc[0].pc = "rejected"
       THEN /\ co' = [co EXCEPT !.pc = "rejected", !.error = proc[0].error]
            /\ UNCHANGED <<cc, proc>>
       ELSE IF proc[0].value = Undefined
       THEN \* first.data of undefined
            /\ co' = [co EXCEPT !.pc = "rejected", !.error = TypeError]
            /\ UNCHANGED <<cc, proc>>
       ELSE LET first == JsonParse(proc[0].value) IN
            IF ~IsArray(first.data) \/ ~Paginated(first)
            THEN /\ co' = [co EXCEPT !.pc = "resolved", !.value = first.data]
                 /\ UNCHANGED <<cc, proc>>
            ELSE LET pages == Nullish(first.total_pages, 0)
                     remainingPages == RemainingPages(pages)
                     requests == [ j \in 1..Len(remainingPages) |->
                                     PageRequest(co.endpoint, options.query, remainingPages[j]) ]
                     c == [IdleCC EXCEPT !.requests = requests,
                                         !.size = ConcurrencyOf(options, cfg),
                                         !.skipErrors = SkipErrorsOf(options, cfg), !.k = 1]
                     run == RunChunks(c, proc, cfg, now)
                 IN  /\ co' = [co EXCEPT !.pc = "pages", !.results = ItemsOf(first.data)]
                     /\ cc' = run[1] /\ proc' = run[2]
    /\ UNCHANGED <<cfg, now, op, options, transport, auth>>

\* concurrent() has settled: collect rejects with its failure, or pushes the
\* data of the responses and returns results.
PagesCollected ==
    /\ op = "collect" /\ co.pc = "pages" /\ cc.pc \in {"resolved", "rejected"}
    /\ co' = IF cc.pc = "rejected"
             THEN [co EXCEPT !.pc = "rejected", !.error = cc.error]
             ELSE LET acc == PushAll(cc.results,
                                     [results |-> co.results, thrown |-> FALSE, error |-> NoError])
                  IN  IF acc.thrown
                      THEN [co EXCEPT !.pc = "rejected", !.results = acc.results,
                                      !.error = acc.error]
                      ELSE [co EXCEPT !.pc = "resolved", !.results = acc.results,
                                      !.value = Some(Data(TRUE, acc.results))]
    /\ UNCHANGED <<cfg, now, proc, op, cc, options, transport, auth>>

\* The answers of the transport explored under collect().
CollectResponses ==
    { Response("ok", 200, None, JsonText(d)) : d \in V3Docs }
    \cup { Response("ok", 204, None, ""), Response("http", 400, Some(<<"0">>), "{m}"),
           Response("http", 429, Some(<<"0">>), "{..}") }

CollectConfigs ==
    [ storeHash : {StoreHash}, accessToken : {"token"},
      maxDelay : {Some(1)}, maxRetries : {Some(2)},
      concurrency : {None, Some(1)}, skipErrors : {None, Some(TRUE)} ]

InitCollect ==
    /\ cfg \in CollectConfigs
    /\ now = 0
    /\ proc = [i \in Procs |-> IdleProc]
    /\ op = "none"
    /\ cc = IdleCC
    /\ co = IdleCO
    /\ options = NoOptions
    /\ auth = IdleAuth
    /\ transport = CollectResponses

\* the steps of a run of collect
CollectSteps ==
    \/ FirstPage
    \/ BatchSettled
    \/ PagesCollected
    \/ \E i \in Procs : Respond(i)
    \/ \E i \in Procs : WakeUp(i)

NextCollect == Collect \/ CollectSteps

SpecCollect == InitCollect /\ [][NextCollect]_vars

\* For termination: a client with batches of 1, and a transport that answers
\* with a page of MaxTotalPages pages, a failure or a 429.
InitCollectFair ==
    /\ cfg \in [ storeHash : {StoreHash}, accessToken : {"token"},
                 maxDelay : {Some(1)}, maxRetries : {Some(2)},
                 concurrency : {Some(1)}, skipErrors : {None, Some(TRUE)} ]
    /\ now = 0
    /\ proc = [i \in Procs |-> IdleProc]
    /\ op = "none"
    /\ cc = IdleCC
    /\ co = IdleCO
    /\ options = NoOptions
    /\ auth = IdleAuth
    /\ transport = { Response("ok", 200, None, JsonText(Page(<<1>>, Some(MaxTotalPages)))),
                     Response("http", 400, Some(<<"0">>), "{m}"),
                     Response("http", 429, Some(<<"0">>), "{..}") }

\* Every transport call is answered, every timer fires and every continuation
\* runs.
FairSpecCollect == InitCollectFair /\ [][NextCollect]_vars /\ WF_vars(CollectSteps)

----------------------------------------------------------------------------
(* collectV2(): all pages of a v2 resource (client.ts).                    *)

\* The mutant of WindowPages whose range includes its end.
WindowPagesInclusive(page, size) == page..(page + size)

\* range(page, page + concurrency)
WindowPages(page, size) == page..(page + size - 1)

\* The mutant of EndOfData that never takes an answer for the end.
EndOfDataNever(value) == FALSE

\* if (response.value) ... else done = true: the value of a 204 answer,
\* undefined, is falsy and so is the null of a body null; arrays and objects
\* are truthy.
EndOfData(value) == value \in {Undefined, NullText}

\* The mutant of Is404 that takes no failure for the end.
Is404Never(reason) == FALSE

\* response.reason instanceof RequestError && response.reason.status === 404
Is404(reason) == reason.cls = "RequestError" /\ reason.status = 404

\* The mutant of OnWindowFulfilled that discards the data of a page that comes
\* after the end of the stream.
OnWindowFulfilledUntilDone(acc, value) ==
    IF acc.done \/ EndOfData(value) THEN [acc EXCEPT !.done = TRUE]
    ELSE IF JsonParse(value).isArray
         THEN [acc EXCEPT !.results = PushData(@, JsonParse(value).items)]
         ELSE [acc EXCEPT !.thrown = TRUE, !.error = TypeError]

\* The fulfilled branch of the forEach callback of collectV2: the items of the
\* value are pushed (a value that is no array cannot be spread), or done is set.
OnWindowFulfilled(acc, value) ==
    IF EndOfData(value) THEN [acc EXCEPT !.done = TRUE]
    ELSE IF JsonParse(value).isArray
         THEN [acc EXCEPT !.results = PushData(@, JsonParse(value).items)]
         ELSE [acc EXCEPT !.thrown = TRUE, !.error = TypeError]

\* The mutant of OnWindowRejected that lets a failure pass once the window has
\* shown the end of the stream.
OnWindowRejectedAfterDone(acc, reason, skipErrors) ==
    IF Is404(reason) THEN [acc EXCEPT !.done = TRUE]
    ELSE IF ~skipErrors /\ ~acc.done THEN [acc EXCEPT !.thrown = TRUE, !.error = reason]
    ELSE acc

\* The rejected branch: a 404 sets done; another failure is thrown unless
\* skipErrors (then console.warn).
OnWindowRejected(acc, reason, skipErrors) ==
    IF Is404(reason) THEN [acc EXCEPT !.done = TRUE]
    ELSE IF ~skipErrors THEN [acc EXCEPT !.thrown = TRUE, !.error = reason]
    ELSE acc

RECURSIVE WindowForEach(_, _, _, _)
\* responses.forEach(...) over the settled requests js of a window, from the
\* accumulator acc = [results, done, thrown, error]; a throw ends the loop.
WindowForEach(js, pr, acc, skipErrors) ==
    IF js = {} \/ acc.thrown THEN acc
    ELSE LET j == NextResponse(js, pr)
             next == IF pr[j].pc = "fulfilled"
                     THEN OnWindowFulfilled(acc, pr[j].value)
                     ELSE OnWindowRejected(acc, pr[j].error, skipErrors)
         IN  WindowForEach(js \ {j}, pr, next, skipErrors)

\* The while loop of collectV2() from its test, up to its next suspension: when
\* done it returns results; otherwise the requests of the pages page ..
\* page + concurrency - 1 are started with get(), page is advanced and the loop
\* awaits Promise.allSettled.  Gives the new <<co, proc>>.
RunWindow(c, pr, q, conf, t) ==
    IF c.done
    THEN << [c EXCEPT !.pc = "resolved", !.value = Some(Data(TRUE, c.results))], pr >>
    ELSE << [c EXCEPT !.pc = "window", !.page = @ + c.size],
            [ i \in Procs |->
                IF i + 1 \in WindowPages(c.page, c.size)
                THEN Start(Merge(V2PageRequest(c.endpoint, q, i + 1), conf), t) ELSE pr[i] ] >>

\* the requests of the window that collectV2 awaits
Window == { n - 1 : n \in WindowPages(co.page - co.size, co.size) }

CollectV2Options ==
    [ query : {None}, concurrency : {None, Some(2)}, skipErrors : {None, Some(FALSE)} ]
    \cup [ query : {Some(<< <<Key("limit"), Val(<<"2">>)>> >>)},
           concurrency : {None}, skipErrors : {None} ]

\* client.collectV2(endpoint, options), up to the await of the first window.
CollectV2 ==
    /\ op = "none"
    /\ \E e \in CollectEndpoints, o \in CollectV2Options :
          LET opt == [o EXCEPT !.query = DefaultLimit(o.query)]
              c == [IdleCO EXCEPT !.endpoint = e, !.given = o, !.size = ConcurrencyOf(opt, cfg)]
          IN  /\ c.size <= MaxPages
              /\ options' = opt
              /\ \E run \in { RunWindow(c, proc, opt.query, cfg, now) } :
                    co' = run[1] /\ proc' = run[2]
    /\ op' = "collectV2"
    /\ UNCHANGED <<cfg, now, cc, transport, auth>>

\* Promise.allSettled of the window resolves: the forEach over its responses,
\* then the next iteration of the while loop.  (A window beyond MaxPages is
\* not explored.)
WindowSettled ==
    /\ op = "collectV2" /\ co.pc = "window"
    /\ AllSettled(Window, proc)
    /\ \E acc \in { WindowForEach(Window, proc,
                                   [results |-> co.results, done |-> FALSE, thrown |-> FALSE,
                                    error |-> NoError],
                                   SkipErrorsOf(options, cfg)) } :
          IF acc.thrown
          THEN /\ co' = [co EXCEPT !.pc = "rejected", !.results = acc.results, !.error = acc.error]
               /\ proc' = proc
          ELSE /\ acc.done \/ co.page + co.size - 1 <= MaxPages
               /\ \E run \in { RunWindow([co EXCEPT !.results = acc.results, !.done = acc.done],
                                          proc, options.query, cfg, now) } :
                     co' = run[1] /\ proc' = run[2]
    /\ UNCHANGED <<cfg, now, op, cc, options, transport, auth>>

\* The answers of the transport explored under collectV2().
CollectV2Responses ==
    { Response("ok", 200, None, JsonText(d)) : d \in V2Docs }
    \cup { Response("ok", 204, None, ""), Response("ok", 200, None, NullText),
           Response("http", 404, None, "<html>"),
           Response("http", 400, Some(<<"0">>), "{m}"),
           Response("http", 429, Some(<<"0">>), "{..}") }

CollectV2Configs ==
    [ storeHash : {StoreHash}, accessToken : {"token"},
      maxDelay : {Some(1)}, maxRetries : {Some(2)},
      concurrency : {Some(1), Some(3)}, skipErrors : {None, Some(TRUE)} ]

InitCollectV2 ==
    /\ cfg \in CollectV2Configs
    /\ now = 0
    /\ proc = [i \in Procs |-> IdleProc]
    /\ op = "none"
    /\ cc = IdleCC
    /\ co = IdleCO
    /\ options = NoOptions
    /\ auth = IdleAuth
    /\ transport = CollectV2Responses

\* the steps of a run of collectV2
CollectV2Steps ==
    \/ WindowSettled
    \/ \E i \in Procs : Respond(i)
    \/ \E i \in Procs : WakeUp(i)

NextCollectV2 == CollectV2 \/ CollectV2Steps

SpecCollectV2 == InitCollectV2 /\ [][NextCollectV2]_vars

\* A small run of collectV2 for the check of termination: concurrency 1, 2 or
\* 3, pages that answer with items, no-content, 404 or a 429 to retry at once.
InitCollectV2Fair ==
    /\ cfg \in [ storeHash : {StoreHash}, accessToken : {"token"},
                 maxDelay : {Some(1)}, maxRetries : {Some(2)},
                 concurrency : {Some(1), Some(3)}, skipErrors : {None} ]
    /\ now = 0
    /\ proc = [i \in Procs |-> IdleProc]
    /\ op = "none"
    /\ cc = IdleCC
    /\ co = IdleCO
    /\ options = NoOptions
    /\ auth = IdleAuth
    /\ transport = { Response("ok", 200, None, JsonText(List(<<6>>))),
                     Response("ok", 200, None, JsonText(List(<<7, 8>>))),
                     Response("ok", 204, None, ""), Response("http", 404, None, "<html>"),
                     Response("http", 429, Some(<<"0">>), "{..}") }

\* Every transport call is answered, every timer fires and every continuation
\* runs.
FairSpecCollectV2 == InitCollectV2Fair /\ [][NextCollectV2]_vars /\ WF_vars(CollectV2Steps)

----------------------------------------------------------------------------
(* query(): the values of one field, in chunks that fit a URL (client.ts,  *)
(* util.ts).                                                               *)

\* encodeURIComponent(item).length, for the strings of this model: letters and
\* digits, and characters that encodeURIComponent writes as %XX as
\* URLSearchParams does.
EncodedLength(item) == item.plain + 3 * item.esc

RECURSIVE ChunkItemsOversized(_, _, _, _)
\* The mutant of ChunkItems that puts an item that is too large in a chunk of
\* its own.
ChunkItemsOversized(items, st, offset, chunkLength) ==
    IF items = <<>> THEN st
    ELSE LET item == Head(items)
             totalItemLength == EncodedLength(item)
                                + (IF Len(st.currentChunk) > 0 THEN DEFAULT_SEPARATOR_SIZE ELSE 0)
             flushed == IF ( \/ st.currentStrLength + totalItemLength > DEFAULT_MAX_LENGTH
                             \/ Len(st.currentChunk) >= chunkLength )
                           /\ Len(st.currentChunk) > 0
                        THEN [st EXCEPT !.chunks = Append(@, st.currentChunk),
                                        !.currentChunk = <<>>, !.currentStrLength = offset]
                        ELSE st
         IN  ChunkItemsOversized(Tail(items),
                                 [flushed EXCEPT !.currentChunk = Append(@, item),
                                                 !.currentStrLength = @ + totalItemLength],
                                 offset, chunkLength)

RECURSIVE ChunkItems(_, _, _, _)
\* The for loop of chunkStrLength over the items left, from the locals st =
\* [chunks, currentChunk, currentStrLength, thrown].
ChunkItems(items, st, offset, chunkLength) ==
    IF items = <<>> \/ st.thrown THEN st
    ELSE LET item == Head(items)
             itemLength == EncodedLength(item)
             separatorLength == IF Len(st.currentChunk) > 0 THEN DEFAULT_SEPARATOR_SIZE ELSE 0
             totalItemLength == itemLength + separatorLength
             wouldExceedLength == st.currentStrLength + totalItemLength > DEFAULT_MAX_LENGTH
             wouldExceedCount == Len(st.currentChunk) >= chunkLength
             flushed == IF (wouldExceedLength \/ wouldExceedCount) /\ Len(st.currentChunk) > 0
                        THEN [st EXCEPT !.chunks = Append(@, st.currentChunk),
                                        !.currentChunk = <<>>, !.currentStrLength = offset]
                        ELSE st
         IN  IF itemLength + offset > DEFAULT_MAX_LENGTH
             THEN [flushed EXCEPT !.thrown = TRUE]
             ELSE ChunkItems(Tail(items),
                             [flushed EXCEPT !.currentChunk = Append(@, item),
                                             !.currentStrLength = @ + totalItemLength],
                             offset, chunkLength)

\* The mutant of ChunkStrLength that forgets the chunk in the making when the
\* items are used up.
ChunkStrLengthNoTail(items, offset, chunkLength) ==
    ChunkItems(items, [chunks |-> <<>>, currentChunk |-> <<>>,
                       currentStrLength |-> offset, thrown |-> FALSE],
               offset, chunkLength)

\* chunkStrLength(items, { offset, chunkLength }): the chunks, or thrown when
\* an item is too large.
ChunkStrLength(items, offset, chunkLength) ==
    LET st == ChunkItems(items, [chunks |-> <<>>, currentChunk |-> <<>>,
                                 currentStrLength |-> offset, thrown |-> FALSE],
                         offset, chunkLength)
    IN  IF ~st.thrown /\ Len(st.currentChunk) > 0
        THEN [st EXCEPT !.chunks = Append(@, st.currentChunk)] ELSE st

\* new Error(`Item too large: ...`)
ItemTooLarge == Err("Error", 0, "Item too large", FALSE, NoResponse)

\* The mutant of Join that binds the key to the first value of the chunk only.
JoinFirst(chunk) == chunk[1]

RECURSIVE Join(_)
\* chunk.join(','): URLSearchParams writes each comma as %2C
Join(chunk) ==
    IF Len(chunk) = 1 THEN chunk[1]
    ELSE LET rest == Join(Tail(chunk)) IN
         [ plain |-> chunk[1].plain + rest.plain, esc |-> chunk[1].esc + 1 + rest.esc,
           text |-> chunk[1].text \o <<",">> \o rest.text ]

\* const { limit: _, ...restQuery } = options.query
RestQuery(q) == SelectSeq(q, LAMBDA entry : entry[1].text # "limit")

\* { ...options.query, [options.key]: value }
WithKey(q, key, v) ==
    IF HasKey(q, key.text)
    THEN [i \in 1..Len(q) |-> IF q[i][1].text = key.text THEN <<q[i][1], v>> ELSE q[i]]
    ELSE Append(q, <<key, v>>)

\* `${BASE_URL}${this.config.storeHash}/v3/${endpoint}?${new
\* URLSearchParams(restQuery).toString()}`.length
QueryOffset(e, q, conf) ==
    BASE_URL_LENGTH + conf.storeHash.len + 1 + VERSION_LENGTH + 1 + e.len + 1
    + SearchParamsLen(RestQuery(q))

\* The mutant of ChunkLength that takes no notice of the caller's limit.
ChunkLengthDefault(q) == MAX_PAGE_SIZE

\* Number.parseInt(options.query?.limit) || MAX_PAGE_SIZE
ChunkLength(q) ==
    LET limit == Lookup(q, "limit")
        n == ParseInt(IF limit = None THEN None ELSE Some(Nullish(limit, Val(<<>>)).text))
    IN  IF n.nan \/ n.val = 0 THEN MAX_PAGE_SIZE ELSE n.val

\* the value undefined among the items of a result
UndefinedItem == 0

\* response.data as flatMap adds it: the items of an array, else the one
\* value
FlatData(value) ==
    LET d == JsonParse(value).data IN IF d = None THEN <<UndefinedItem>> ELSE ItemsOf(d)

RECURSIVE FlatMapData(_, _)
\* responses.flatMap((response) => response.data), from the accumulator acc
FlatMapData(values, acc) ==
    IF values = <<>> \/ acc.thrown THEN acc
    ELSE FlatMapData(Tail(values),
                     IF Head(values) \in {Undefined, NullText}
                     THEN [acc EXCEPT !.thrown = TRUE, !.error = TypeError]
                     ELSE [acc EXCEPT !.results = @ \o FlatData(Head(values))])

\* 'id:in', whose colon URLSearchParams writes as %3A
QueryKeys == { [plain |-> 4, esc |-> 1, text |-> "id:in"] }
\* the lists of values a / bc / a / ... of up to MaxRequests values
QueryValues ==
    { [i \in 1..n |-> IF i % 2 = 1 THEN Val(<<"a">>) ELSE Val(<<"b", "c">>)] : n \in 0..MaxRequests }
\* Endpoints after which the offset leaves room for every list of values, for
\* four characters ("bc,a"), for two ("bc") and for one ("a").
QueryEndpoints == { Endpoint(16), Endpoint(2000), Endpoint(2002), Endpoint(2003) }
QueryOptions ==
    [ key : QueryKeys,
      values : QueryValues,
      query : { None, Some(<< <<Key("limit"), Val(<<"1">>)>> >>),
                Some(<< <<Key("sort"), Val(<<"i", "d">>)>>, <<Key("limit"), Val(<<"2">>)>> >>) },
      concurrency : {None, Some(2)}, skipErrors : {None} ]

\* client.query(endpoint, options), up to the await of concurrent().
Query ==
    /\ op = "none"
    /\ \E e \in QueryEndpoints, o \in QueryOptions :
          LET query == Nullish(DefaultLimit(o.query), <<>>)
              opt == [o EXCEPT !.query = Some(query)]
              st == ChunkStrLength(o.values, QueryOffset(e, query, cfg), ChunkLength(query))
              requests == [ k \in 1..Len(st.chunks) |->
                              Descriptor(e, Some(WithKey(query, o.key, Join(st.chunks[k])))) ]
              c == [IdleCC EXCEPT !.requests = requests, !.size = ConcurrencyOf(opt, cfg),
                                  !.skipErrors = SkipErrorsOf(opt, cfg), !.k = 1]
          IN  /\ options' = opt
              /\ IF st.thrown
                 THEN /\ co' = [IdleCO EXCEPT !.pc = "rejected", !.endpoint = e, !.given = o,
                                              !.error = ItemTooLarge]
                      /\ UNCHANGED <<cc, proc>>
                 ELSE /\ co' = [IdleCO EXCEPT !.pc = "chunks", !.endpoint = e, !.given = o]
                      /\ \E run \in { RunChunks(c, proc, cfg, now) } :
                            cc' = run[1] /\ proc' = run[2]
    /\ op' = "query"
    /\ UNCHANGED <<cfg, now, transport, auth>>

\* concurrent() has settled: query rejects with its failure, or returns the
\* data of the responses, flattened.
QueryCollected ==
    /\ op = "query" /\ co.pc = "chunks" /\ cc.pc \in {"resolved", "rejected"}
    /\ co' = IF cc.pc = "rejected"
             THEN [co EXCEPT !.pc = "rejected", !.error = cc.error]
             ELSE LET acc == FlatMapData(cc.results,
                                         [results |-> <<>>, thrown |-> FALSE, error |-> NoError])
                  IN  IF acc.thrown
                      THEN [co EXCEPT !.pc = "rejected", !.error = acc.error]
                      ELSE [co EXCEPT !.pc = "resolved", !.results = acc.results,
                                      !.value = Some(Data(TRUE, acc.results))]
    /\ UNCHANGED <<cfg, now, proc, op, cc, options, transport, auth>>

\* The answers of the transport explored under query().
QueryResponses ==
    { Response("ok", 200, None, JsonText(Page(<<1>>, Some(MaxTotalPages)))),
      Response("ok", 200, None, JsonText(Page(<<2, 3>>, Some(1)))),
      Response("http", 400, Some(<<"0">>), "{m}"),
      Response("http", 429, Some(<<"0">>), "{..}") }

QueryConfigs ==
    [ storeHash : {StoreHash}, accessToken : {"token"},
      maxDelay : {Some(1)}, maxRetries : {Some(2)},
      concurrency : {None, Some(1)}, skipErrors : {None, Some(TRUE)} ]

InitQuery ==
    /\ cfg \in QueryConfigs
    /\ now = 0
    /\ proc = [i \in Procs |-> IdleProc]
    /\ op = "none"
    /\ cc = IdleCC
    /\ co = IdleCO
    /\ options = NoOptions
    /\ auth = IdleAuth
    /\ transport = QueryResponses

NextQuery ==
    \/ Query
    \/ BatchSettled
    \/ QueryCollected
    \/ \E i \in Procs : Respond(i)
    \/ \E i \in Procs : WakeUp(i)

SpecQuery == InitQuery /\ [][NextQuery]_vars

----------------------------------------------------------------------------
(* The four operations that issue several requests, side by side.          *)

\* A client of concurrency 1 or 2, or of the default, and a transport that
\* answers with a v3 page, a v2 page, no-content, or a 429 to retry at once.
InitClient ==
    /\ cfg \in [ storeHash : {StoreHash}, accessToken : {"token"},
                 maxDelay : {Some(1)}, maxRetries : {Some(2)},
                 concurrency : {None, Some(1), Some(3)}, skipErrors : {None} ]
    /\ now = 0
    /\ proc = [i \in Procs |-> IdleProc]
    /\ op = "none"
    /\ cc = IdleCC
    /\ co = IdleCO
    /\ options = NoOptions
    /\ auth = IdleAuth
    /\ transport = { Response("ok", 200, None, JsonText(Page(<<1>>, Some(MaxTotalPages)))),
                     Response("ok", 200, None, JsonText(List(<<6>>))),
                     Response("ok", 204, None, ""),
                     Response("http", 429, Some(<<"0">>), "{..}") }

NextClient ==
    \/ Concurrent
    \/ Collect
    \/ CollectV2
    \/ Query
    \/ BatchSettled
    \/ FirstPage
    \/ PagesCollected
    \/ WindowSettled
    \/ QueryCollected
    \/ \E i \in Procs : Respond(i)
    \/ \E i \in Procs : WakeUp(i)

SpecClient == InitClient /\ [][NextClient]_vars

----------------------------------------------------------------------------
(* Authentication (auth.ts): requestToken() and verify().                  *)

\* !text for a text that may be null or undefined
Missing(text) == text = None \/ text = Some(<<>>)

RECURSIVE Split(_)
\* s.split(' ')
Split(s) ==
    IF \A i \in 1..Len(s) : s[i] # " " THEN << s >>
    ELSE LET i == CHOOSE k \in 1..Len(s) : s[k] = " " /\ \A j \in 1..(k - 1) : s[j] # " "
         IN  << SubSeq(s, 1, i - 1) >> \o Split(SubSeq(s, i + 1, Len(s)))

RECURSIVE JoinSpaces(_)
\* scopes.join(' ')
JoinSpaces(ts) ==
    IF ts = <<>> THEN <<>>
    ELSE IF Len(ts) = 1 THEN ts[1]
    ELSE ts[1] \o <<" ">> \o JoinSpaces(Tail(ts))

\* array.includes(x)
Includes(array, x) == \E i \in 1..Len(array) : array[i] = x

\* The mutant of MissingScopes that takes a scope for granted when it is part
\* of the granted text.
MissingScopesBySubstring(required, scopes) ==
    SelectSeq(required, LAMBDA scope :
        ~\E i \in 1..Len(scopes), j \in 0..Len(scopes) : SubSeq(scopes, i, j) = scope)

\* requiredScopes.filter(scope => !grantedScopes.includes(scope))
MissingScopes(required, scopes) ==
    SelectSeq(required, LAMBDA scope : ~Includes(Split(scopes), scope))

\* validateScopes(scopes): the error it throws, or NoAuthError
ValidateScopes(scopes, conf) ==
    IF conf.scopes = None THEN NoAuthError
    ELSE IF scopes = None THEN SplitOfUndefined
    ELSE LET granted == Nullish(scopes, <<>>)
             required == Nullish(conf.scopes, <<>>)
         IN  IF Len(MissingScopes(required, granted)) # 0
             THEN AuthError("Scope mismatch", granted, JoinSpaces(required), "")
             ELSE NoAuthError

\* The mutant of ParseQueryString that leaves the missing fields to the token
\* endpoint.
ParseQueryStringUnchecked(data, conf) ==
    [ error |-> NoAuthError,
      query |-> AuthData("object", data.code, data.scope, data.context) ]

\* parseQueryString(queryString): the error it throws, or the AuthQuery
ParseQueryString(data, conf) ==
    IF Missing(data.code)
    THEN [error |-> AuthError("No code found in query string", <<>>, <<>>, ""), query |-> data]
    ELSE IF Missing(data.scope)
    THEN [error |-> AuthError("No scope found in query string", <<>>, <<>>, ""), query |-> data]
    ELSE IF conf.scopes # None /\ Len(Nullish(conf.scopes, <<>>)) # 0
            /\ ValidateScopes(data.scope, conf) # NoAuthError
    THEN [error |-> ValidateScopes(data.scope, conf), query |-> data]
    ELSE IF Missing(data.context)
    THEN [error |-> AuthError("No context found in query string", <<>>, <<>>, ""), query |-> data]
    ELSE [ error |-> NoAuthError,
           query |-> AuthData("object", data.code, data.scope, data.context) ]

\* The head of requestToken: the query, parsed unless an object was given,
\* then validateScopes(query.scope).
CheckedQuery(data, conf) ==
    LET parsed == IF data.form \in {"string", "params"}
                  THEN ParseQueryString(data, conf)
                  ELSE [error |-> NoAuthError, query |-> data]
    IN  IF parsed.error # NoAuthError THEN parsed
        ELSE [error |-> ValidateScopes(parsed.query.scope, conf), query |-> parsed.query]

\* { client_id, client_secret, ...query, grant_type, redirect_uri }
TokenRequest(query, conf) ==
    [ client_id |-> conf.clientId, client_secret |-> conf.secret,
      code |-> query.code, scope |-> query.scope, context |-> query.context,
      grant_type |-> "authorization_code", redirect_uri |-> conf.redirectUri ]

\* The auth callbacks explored: each field absent, empty or given; scope
\* strings of one, two and three scopes, and one with a longer scope name.
AuthTexts == { None, Some(<<>>), Some(<<"x">>) }
ScopeTexts ==
    { None, Some(<<>>), Some(<<"a">>), Some(<<"a", " ", "b">>), Some(<<"b", " ", "c", " ", "a">>),
      Some(<<"a", "b">>) }
AuthInputs ==
    { AuthData(f, code, scope, context) :
        f \in {"string", "params", "object"}, code \in AuthTexts, scope \in ScopeTexts,
        context \in AuthTexts }

\* auth.requestToken(data), up to the await of ky(TOKEN_ENDPOINT, ...).
RequestToken ==
    /\ op = "none"
    /\ \E data \in AuthInputs :
          LET checked == CheckedQuery(data, auth.config) IN
          auth' = IF checked.error # NoAuthError
                  THEN [auth EXCEPT !.pc = "rejected", !.data = data, !.error = checked.error]
                  ELSE [auth EXCEPT !.pc = "posting", !.data = data, !.calls = @ + 1,
                                    !.request = Some(TokenRequest(checked.query, auth.config))]
    /\ op' = "requestToken"
    /\ UNCHANGED <<cfg, now, proc, cc, co, options, transport>>

\* The token endpoint answers: 2xx with the token, another status (HTTPError),
\* or no answer (a network failure).
TokenAnswered ==
    /\ op = "requestToken" /\ auth.pc = "posting"
    /\ \E r \in {"ok", "http", "network"} :
          auth' = IF r = "ok" THEN [auth EXCEPT !.pc = "resolved", !.value = Some("token")]
                  ELSE IF r = "http"
                  THEN [auth EXCEPT !.pc = "rejected",
                          !.error = AuthError("Failed to request token. BC returned", <<>>, <<>>, "HTTPError")]
                  ELSE [auth EXCEPT !.pc = "rejected",
                          !.error = AuthError("Failed to request token", <<>>, <<>>, "network")]
    /\ UNCHANGED <<cfg, now, proc, op, cc, co, options, transport>>

\* The mutant of JwtVerify that does not check the audience.
JwtVerifyAnyAudience(jwt, secret, audience, issuer, subject, t) ==
    IF ~jwt.wellFormed THEN "JWSInvalid"
    ELSE IF jwt.key # secret THEN "JWSSignatureVerificationFailed"
    ELSE IF jwt.iss # issuer THEN "JWTClaimValidationFailed: iss"
    ELSE IF jwt.sub # subject THEN "JWTClaimValidationFailed: sub"
    ELSE IF jwt.exp <= t THEN "JWTExpired"
    ELSE "ok"

\* jose.jwtVerify(jwt, secret, { audience, issuer, subject }) at time t: "ok",
\* or the error it throws: the token is parsed, its signature verified, then
\* its iss, sub and aud claims and its expiry are checked.
JwtVerify(jwt, secret, audience, issuer, subject, t) ==
    IF ~jwt.wellFormed THEN "JWSInvalid"
    ELSE IF jwt.key # secret THEN "JWSSignatureVerificationFailed"
    ELSE IF jwt.iss # issuer THEN "JWTClaimValidationFailed: iss"
    ELSE IF jwt.sub # subject THEN "JWTClaimValidationFailed: sub"
    ELSE IF jwt.aud # audience THEN "JWTClaimValidationFailed: aud"
    ELSE IF jwt.exp <= t THEN "JWTExpired"
    ELSE "ok"

\* The mutant of InvalidJwt whose message tells the cause.
InvalidJwtTelling(cause) == AuthError(cause, <<>>, <<>>, cause)

\* new Error('Invalid JWT payload', { cause: error })
InvalidJwt(cause) == AuthError("Invalid JWT payload", <<>>, <<>>, cause)

\* `stores/${storeHash}`
SubjectOf(storeHash) == "stores/" \o storeHash

Jwts ==
    { Jwt(wf, key, aud, iss, sub, exp) :
        wf \in BOOLEAN, key \in {"secret", "other"}, aud \in {"client", "other"},
        iss \in {ISSUER, "other"}, sub \in {"stores/test", "stores/other"}, exp \in {0, MaxTime} }

\* auth.verify(jwtPayload, storeHash)
Verify ==
    /\ op = "none"
    /\ \E jwt \in Jwts, storeHash \in {"test", "other"} :
          LET outcome == JwtVerify(jwt, auth.config.secret, auth.config.clientId, ISSUER,
                                   SubjectOf(storeHash), now)
          IN  auth' = IF outcome = "ok"
                      THEN [auth EXCEPT !.pc = "resolved", !.jwt = jwt, !.storeHash = storeHash,
                                        !.value = Some("claims")]
                      ELSE [auth EXCEPT !.pc = "rejected", !.jwt = jwt, !.storeHash = storeHash,
                                        !.error = InvalidJwt(outcome)]
    /\ op' = "verify"
    /\ UNCHANGED <<cfg, now, proc, cc, co, options, transport>>

AuthConfigs ==
    [ clientId : {"client"}, secret : {"secret"}, redirectUri : {"uri"},
      scopes : { None, Some(<<>>), Some(<< <<"a">> >>), Some(<< <<"a">>, <<"b">> >>) } ]

InitAuth ==
    /\ cfg \in { c \in ConcurrentConfigs : c.concurrency = None /\ c.skipErrors = None }
    /\ now \in 0..1
    /\ proc = [i \in Procs |-> IdleProc]
    /\ op = "none"
    /\ cc = IdleCC
    /\ co = IdleCO
    /\ options = NoOptions
    /\ auth \in { [IdleAuth EXCEPT !.config = c] : c \in AuthConfigs }
    /\ transport = {}

NextAuth ==
    \/ RequestToken
    \/ TokenAnswered
    \/ Verify

SpecAuth == InitAuth /\ [][NextAuth]_vars

----------------------------------------------------------------------------
(* Properties of the request engine.                                       *)

Started(p) == p.pc # "idle"
HeaderText(h) == Nullish(h, <<>>)

\* The header is a non-negative integer written in decimal digits, and its value.
IsNumeral(h) ==
    h # None /\ HeaderText(h) # <<>> /\ \A k \in 1..Len(HeaderText(h)) : HeaderText(h)[k] \in Digits
NumeralValue(h) == DecimalValue(HeaderText(h), 0)

Is429(r) == r.kind = "http" /\ r.status = 429
\* a 429 answer whose retry-after is a number of at most d
Acceptable(r, d) == Is429(r) /\ IsNumeral(r.hdr) /\ NumeralValue(r.hdr) <= d
\* a 2xx answer with a body that parses
GoodAnswer(r) == r.kind = "ok" /\ r.status = 200 /\ Parses(r.body)
AllAcceptable(h, n, d) == \A j \in 1..n : Acceptable(h[j], d)
Last(h) == h[Len(h)]

\* C1: with retry budget N and max delay D, when the first k attempts (1 <= k < N)
\* are answered 429 with a retry-after R_i <= D and the next one 2xx, request
\* returns the parsed body of that answer after exactly k + 1 transport calls; and
\* an attempt that follows a 429 with retry-after R is issued no earlier than R
\* after that 429 was received.
C1_RetryThenSuccess ==
    \A i \in Procs :
        LET p == proc[i]
            h == p.history
            n == Len(h)
        IN  Started(p) =>
              /\ ( /\ n >= 2 /\ n <= MaxRetriesOf(p)
                   /\ AllAcceptable(h, n - 1, MaxDelayOf(p))
                   /\ GoodAnswer(h[n]) )
                 => (p.pc = "fulfilled" /\ p.value = h[n].body /\ p.ncalls = n)
              /\ (n >= 1 /\ Acceptable(h[n], MaxDelayOf(p)) /\ p.ncalls > n)
                 => p.sentAt >= p.recvAt + NumeralValue(h[n].hdr)

\* C1 witness: max delay 1, a 429 with retry-after 1, then a 200: fulfilled with
\* the body after 2 transport calls, the second one at least 1 ms later.
C1_Witness ==
    /\ op = "get" /\ proc[1].pc = "fulfilled" /\ proc[1].ncalls = 2
    /\ MaxDelayOf(proc[1]) = 1
    /\ proc[1].history = << Response("http", 429, Some(<<"1">>), "{..}"),
                            Response("ok", 200, None, "{..}") >>
    /\ proc[1].value = "{..}" /\ proc[1].sentAt >= 1

\* C2: the number of transport calls of one request never exceeds maxRetries
\* (and is none for a maxRetries below 0).
C2_CallsWithinBudget ==
    \A i \in Procs : Started(proc[i]) => proc[i].ncalls <= Max(MaxRetriesOf(proc[i]), 0)

\* C2 witness: a request that used its whole budget of 2 calls.
C2_Witness ==
    /\ proc[1].pc = "rejected" /\ MaxRetriesOf(proc[1]) = 2 /\ proc[1].ncalls = 2
    /\ AllAcceptable(proc[1].history, 2, MaxDelayOf(proc[1]))

\* C3: with maxRetries = N, a request whose attempts are all answered 429 with an
\* acceptable retry-after fails only after N retries, that is N + 1 transport
\* calls.
C3_RetriesAfterInitial ==
    \A i \in Procs :
        LET p == proc[i] IN
        ( /\ p.pc = "rejected" /\ Len(p.history) >= 1
          /\ AllAcceptable(p.history, Len(p.history), MaxDelayOf(p)) )
        => p.ncalls = MaxRetriesOf(p) + 1

\* C4: a 429 whose retry-after is greater than maxDelay makes request fail at
\* once with a 429 RequestError 'Rate limit exceeded': no wait is started for it
\* and no further transport call is made.
C4_DelayAboveMaxFails ==
    \A i \in Procs :
        LET p == proc[i]
            h == p.history
            n == Len(h)
        IN  ( /\ Started(p) /\ n >= 1 /\ Is429(h[n]) /\ IsNumeral(h[n].hdr)
              /\ NumeralValue(h[n].hdr) > MaxDelayOf(p) )
            => /\ p.pc = "rejected"
               /\ p.error.cls = "RequestError" /\ p.error.status = 429
               /\ p.error.msg = "Rate limit exceeded"
               /\ p.ncalls = n /\ p.nwaits = n - 1

\* C4 witness: the first answer is a 429 with retry-after 2 > maxDelay = 1, with
\* retries left.
C4_Witness ==
    /\ proc[1].pc = "rejected" /\ MaxDelayOf(proc[1]) = 1 /\ MaxRetriesOf(proc[1]) >= 2
    /\ proc[1].history = << Response("http", 429, Some(<<"2">>), "{..}") >>
    /\ proc[1].error.msg = "Rate limit exceeded" /\ proc[1].ncalls = 1 /\ proc[1].nwaits = 0

\* C5: a 429 whose retry-after is not a non-negative integer (missing, not a
\* number, negative, or digits followed by other characters) makes request fail
\* at once with 'Failed to parse retry after': no wait, no further transport call.
C5_UnparsableRetryAfterFails ==
    \A i \in Procs :
        LET p == proc[i]
            h == p.history
            n == Len(h)
        IN  (Started(p) /\ n >= 1 /\ Is429(h[n]) /\ ~IsNumeral(h[n].hdr))
            => /\ p.pc = "rejected"
               /\ p.error.msg = "Failed to parse retry after"
               /\ p.ncalls = n /\ p.nwaits = n - 1

\* the RequestError safeRequest builds from a 429 answer r without message field
ErrorOf429(r) == Err("RequestError", 429, "error.message", TRUE, r)

\* C6: when every attempt is answered 429 with an acceptable retry-after until
\* the budget is used up, request fails with the error built from the last 429
\* answer.
C6_ExhaustedThrowsLastError ==
    \A i \in Procs :
        LET p == proc[i]
            h == p.history
            n == Len(h)
        IN  (p.pc = "rejected" /\ n >= 1 /\ AllAcceptable(h, n, MaxDelayOf(p)))
            => p.error = ErrorOf429(h[n])

\* C6 witness: a budget of 2, answered 429 with retry-after 0 and then 1: the
\* error is the one of the second answer.
C6_Witness ==
    /\ proc[1].pc = "rejected" /\ MaxRetriesOf(proc[1]) = 2
    /\ proc[1].history = << Response("http", 429, Some(<<"0">>), "{..}"),
                            Response("http", 429, Some(<<"1">>), "{..}") >>
    /\ proc[1].error.resp = Response("http", 429, Some(<<"1">>), "{..}")

\* a failed attempt that is not a 429: an HTTP error status other than 429, a
\* transport failure, or a 2xx answer whose body does not parse
OtherFailure(r) ==
    \/ r.kind = "http" /\ r.status # 429
    \/ r.kind = "net"
    \/ r.kind = "ok" /\ r.status # 204 /\ ~Parses(r.body)

\* C7: a failure of an attempt that is not a 429 ends the request at once with
\* that failure: no wait follows and no further transport call is made; a URL
\* that is too long ends it without any transport call.
C7_OtherFailuresNotRetried ==
    \A i \in Procs :
        LET p == proc[i]
            h == p.history
            n == Len(h)
        IN  Started(p) =>
              /\ (n >= 1 /\ OtherFailure(h[n]))
                 => /\ p.pc = "rejected" /\ p.ncalls = n /\ p.nwaits = n - 1
                    /\ p.error.status = (IF h[n].kind = "net" THEN 0 ELSE h[n].status)
              /\ UrlTooLong(OptsOf(p))
                 => (p.pc = "rejected" /\ p.ncalls = 0 /\ p.nwaits = 0)

\* C7 witness: a 400 that carries a rate-limit header, after one retried 429; and
\* a URL that is too long.
C7_Witness ==
    /\ proc[1].pc = "rejected" /\ proc[1].ncalls = 2 /\ proc[1].nwaits = 1
    /\ Last(proc[1].history) = Response("http", 400, Some(<<"0">>), "{m}")
    /\ proc[1].error.status = 400

\* C8: every request whose assembled URL is longer than 2048 characters fails
\* with RequestError 'URL too long' without a transport call, and a URL of
\* exactly 2048 characters is sent.
C8_UrlTooLongAlways ==
    \A i \in Procs :
        LET p == proc[i] IN
        Started(p) =>
          /\ FullUrlLen(OptsOf(p)) > MAX_URL_LENGTH
             => (p.pc = "rejected" /\ p.error = UrlTooLongError /\ p.ncalls = 0)
          /\ FullUrlLen(OptsOf(p)) = MAX_URL_LENGTH => p.ncalls >= 1

\* What holds of C8 in the code: the claim for maxRetries >= 1; and whatever
\* maxRetries is, a URL longer than 2048 characters is never sent and nothing is
\* waited for.
UrlTooLongWithBudget ==
    \A i \in Procs :
        LET p == proc[i] IN
        Started(p) =>
          /\ FullUrlLen(OptsOf(p)) > MAX_URL_LENGTH
             => /\ p.pc = "rejected" /\ p.ncalls = 0 /\ p.nwaits = 0
                /\ MaxRetriesOf(p) >= 1 => p.error = UrlTooLongError
          /\ (FullUrlLen(OptsOf(p)) = MAX_URL_LENGTH /\ MaxRetriesOf(p) >= 1)
             => p.ncalls >= 1

\* A URL of 2049 characters, 2045 before encoding, is rejected.
UrlTooLongReached ==
    /\ proc[1].pc = "rejected" /\ proc[1].error = UrlTooLongError /\ proc[1].ncalls = 0
    /\ FullUrlLen(OptsOf(proc[1])) = MAX_URL_LENGTH + 1
    /\ OptsOf(proc[1]).query = Some(<< <<Str(1, 0), Str(2, 2)>> >>)

\* A URL of exactly 2048 characters has been sent.
UrlAtLimitSent ==
    /\ Started(proc[1]) /\ proc[1].ncalls >= 1
    /\ FullUrlLen(OptsOf(proc[1])) = MAX_URL_LENGTH

----------------------------------------------------------------------------
(* Properties of concurrent().                                             *)

NumRequests == Len(cc.requests)
Requests == 1..NumRequests
\* the positions of the chunks before the current one
EarlierChunks == { j \in Requests : j <= (cc.k - 1) * cc.size }
CurrentChunk == ChunkOf(NumRequests, cc.size, cc.k)

\* the number of positions of seq that hold v
CountIn(seq, v) == Cardinality({ k \in 1..Len(seq) : seq[k] = v })
\* the number of requests that were fulfilled with v
CountFulfilled(v) == Cardinality({ j \in Requests : proc[j].pc = "fulfilled" /\ proc[j].value = v })

Values == { "{..}", "{m}", Undefined }

\* C9: in fail-fast mode concurrent returns a list only when every request
\* succeeded; when a request of a batch fails it rejects with a failure of that
\* batch, whatever earlier batches and successful siblings answered, and no
\* batch is run after a batch with a failure.
C9_FailFastNoPartialList ==
    (op = "concurrent" /\ ~cc.skipErrors) =>
       /\ cc.pc = "resolved"
          => /\ \A j \in Requests : proc[j].pc = "fulfilled"
             /\ Len(cc.results) = NumRequests
       /\ cc.pc = "rejected"
          => \E j \in CurrentChunk : proc[j].pc = "rejected" /\ cc.error = proc[j].error
       /\ \A j \in EarlierChunks : proc[j].pc = "fulfilled"

\* C9 witness: a first batch of two requests succeeded and their responses
\* were collected, the request of the second batch failed: concurrent has
\* rejected with that failure.
C9_Witness ==
    /\ op = "concurrent" /\ ~cc.skipErrors /\ cc.pc = "rejected"
    /\ cc.size = 2 /\ cc.k = 2 /\ NumRequests = 3
    /\ proc[1].pc = "fulfilled" /\ proc[2].pc = "fulfilled" /\ Len(cc.results) = 2
    /\ proc[3].pc = "rejected" /\ cc.error = proc[3].error

\* C10: in best-effort mode concurrent never rejects; when it returns, every
\* request of every batch has settled and the list holds exactly one response
\* for each request that succeeded and nothing else.
C10_BestEffortSuccessfulSubset ==
    (op = "concurrent" /\ cc.skipErrors) =>
       /\ cc.pc # "rejected"
       /\ cc.pc = "resolved"
          => /\ \A j \in Requests : Settled(proc[j])
             /\ Len(cc.results) = Cardinality({ j \in Requests : proc[j].pc = "fulfilled" })
             /\ \A v \in Values : CountIn(cc.results, v) = CountFulfilled(v)

\* C10 witness: three requests in two batches, the first failed, the other two
\* succeeded with different answers: the list holds these two.
C10_Witness ==
    /\ op = "concurrent" /\ cc.skipErrors /\ cc.pc = "resolved"
    /\ NumRequests = 3 /\ cc.size = 2
    /\ proc[1].pc = "rejected" /\ proc[2].pc = "fulfilled" /\ proc[3].pc = "fulfilled"
    /\ proc[2].value # proc[3].value
    /\ Len(cc.results) = 2

\* the batch (chunk) that position j of the request list falls in
BatchOf(j) == ((j - 1) \div cc.size) + 1

\* C11: concurrent runs its batches one after another: a request of a later
\* batch is dispatched only when every request of every earlier batch has settled
\* (its rate-limit retries included), and the requests of one batch are
\* dispatched in one step: either all of them have been dispatched or none.
C11_BatchesInSequence ==
    op = "concurrent" =>
       \A i \in Requests, j \in Requests :
          /\ (BatchOf(i) < BatchOf(j) /\ Started(proc[j])) => Settled(proc[i])
          /\ BatchOf(i) = BatchOf(j) => (Started(proc[i]) <=> Started(proc[j]))

\* C11 witness: batches of 2; the first request was retried after a 429 and both
\* requests of the first batch have settled; the request of the second batch is
\* now outstanding.
C11_Witness ==
    /\ op = "concurrent" /\ cc.pc = "awaiting" /\ cc.size = 2 /\ NumRequests = 3
    /\ proc[1].nwaits = 1 /\ proc[1].ncalls = 2
    /\ Settled(proc[1]) /\ Settled(proc[2])
    /\ cc.k = 2 /\ proc[3].pc = "inflight"

\* the call runs in fail-fast mode: skipErrors of the call, else of the client,
\* else false, is false
FailFast == ~Nullish(options.skipErrors, Nullish(cfg.skipErrors, FALSE))

\* C13: in fail-fast mode, once a request of a batch has failed, no request of a
\* later batch is ever dispatched.
C13_NoBatchAfterFailure ==
    (op = "concurrent" /\ FailFast) =>
       \A i \in Requests, j \in Requests :
          (proc[i].pc = "rejected" /\ BatchOf(i) < BatchOf(j)) => ~Started(proc[j])

\* C13 witness: batches of 1, fail-fast by the call's own skipErrors = false
\* over a client with skipErrors = true; the first request succeeded, the second
\* was answered with a failure: concurrent has rejected and the third request
\* was never dispatched.
C13_Witness ==
    /\ op = "concurrent" /\ FailFast /\ cfg.skipErrors = Some(TRUE)
    /\ cc.pc = "rejected" /\ cc.size = 1 /\ NumRequests = 3
    /\ proc[1].pc = "fulfilled"
    /\ proc[2].pc = "rejected" /\ proc[2].ncalls = 1
    /\ proc[3].pc = "idle"

RECURSIVE FulfilledValues(_)
\* the values of the fulfilled requests among positions 1..n, in position order
FulfilledValues(n) ==
    IF n = 0 THEN <<>>
    ELSE IF proc[n].pc = "fulfilled" THEN Append(FulfilledValues(n - 1), proc[n].value)
    ELSE FulfilledValues(n - 1)

\* C14: the list concurrent returns holds the responses in the order of the
\* request list, whatever the order in which the requests settled; while it
\* runs, the list holds the responses of the batches done so far in that order.
C14_ResultsInRequestOrder ==
    op = "concurrent" =>
       /\ cc.pc = "resolved" => cc.results = FulfilledValues(NumRequests)
       /\ cc.pc = "awaiting" => cc.results = FulfilledValues(Cardinality(EarlierChunks))

\* C14 witness: two requests of one batch, the second settled before the first,
\* with different answers: the list holds the answer of the first request first.
C14_Witness ==
    /\ op = "concurrent" /\ cc.pc = "resolved" /\ NumRequests = 2 /\ cc.size >= 2
    /\ proc[1].pc = "fulfilled" /\ proc[2].pc = "fulfilled"
    /\ proc[2].rank < proc[1].rank
    /\ proc[1].value = "{..}" /\ proc[2].value = "{m}"
    /\ cc.results = << "{..}", "{m}" >>

----------------------------------------------------------------------------
(* Properties of collect().                                                *)

\* collect has returned or rejected
CollectDone == co.pc \in {"resolved", "rejected"}

\* the request was answered with a payload (a 204 answer has none)
HasPayload(p) == p.pc = "fulfilled" /\ p.value # Undefined
\* the request was answered with a payload whose data is a collection
CollectionAnswer(p) == HasPayload(p) /\ IsArray(JsonParse(p.value).data)
\* the items of the answer of a request
AnswerItems(p) == ItemsOf(JsonParse(p.value).data)
\* the first answer, and the total_pages it reports (0 when it reports none)
FirstDoc == JsonParse(proc[0].value)
TotalPages == Nullish(FirstDoc.total_pages, 0)
\* the first answer is a collection that reports P >= 2 pages
ManyPages == CollectionAnswer(proc[0]) /\ TotalPages >= 2

RECURSIVE ItemsOfPages(_)
\* the items of the answers of pages 1..n, page after page
ItemsOfPages(n) ==
    IF n = 0 THEN <<>> ELSE ItemsOfPages(n - 1) \o AnswerItems(proc[n - 1])

RECURSIVE SumOfCounts(_)
SumOfCounts(n) == IF n = 0 THEN 0 ELSE SumOfCounts(n - 1) + Len(AnswerItems(proc[n - 1]))

\* C15: when the first answer reports N >= 2 pages and the requests of all N
\* pages succeeded with a collection, collect returns the items of page 1
\* followed by those of pages 2..N in page order; the length is the sum of the
\* item counts; this holds whatever the order in which the requests settled.
C15_AllPagesInPageOrder ==
    ( /\ op = "collect" /\ CollectDone /\ ManyPages
      /\ \A n \in 2..TotalPages : CollectionAnswer(proc[n - 1]) )
    => /\ co.pc = "resolved"
       /\ co.value = Some(Data(TRUE, ItemsOfPages(TotalPages)))
       /\ Len(co.results) = SumOfCounts(TotalPages)

\* C15 witness: three pages with the items 1 / 2, 3 / 4; page 3 settled before
\* page 2; collect returned 1, 2, 3, 4.
C15_Witness ==
    /\ op = "collect" /\ co.pc = "resolved" /\ TotalPages = 3
    /\ AnswerItems(proc[0]) = <<1>>
    /\ CollectionAnswer(proc[1]) /\ AnswerItems(proc[1]) = <<2, 3>>
    /\ CollectionAnswer(proc[2]) /\ AnswerItems(proc[2]) = <<4>>
    /\ proc[2].rank < proc[1].rank
    /\ co.value = Some(Data(TRUE, <<1, 2, 3, 4>>))

\* the query of the caller, as given
GivenQuery == Nullish(co.given.query, <<>>)
\* the caller's query with limit = '250' unless the caller gave a limit: the
\* query of the request for the first page
FirstQuery ==
    IF Truthy(Lookup(GivenQuery, "limit")) THEN GivenQuery
    ELSE Assign(GivenQuery, "limit", Val(<<"2", "5", "0">>))
\* the same with page = n at its end
QueryOfPage(n) == Append(FirstQuery, <<Key("page"), Val(Numeral(n))>>)
\* the request descriptor of request i
RequestOf(i) == Descriptor(OptsOf(proc[i]).endpoint, OptsOf(proc[i]).query)
\* the requests other than the one for the first page
LaterRequests == Procs \ {0}

\* C16: collect issues one request for page 1 (the caller's endpoint and query,
\* with limit = 250 when the caller gave none, and no page) and no other request
\* before it is answered.  A request for a later page is issued only when the
\* first answer is a collection that reports P >= 2 pages; it is the request of
\* one page n of 2..P, no two requests are for the same page, and it has the
\* same endpoint and query plus page = n; when concurrent has run all its
\* batches every page of 2..P has its request.  When the first answer has a
\* payload that reports one page or none, or is not a collection, no further
\* request is issued and collect returns the data of that payload.
C16_OneRequestPerPage ==
    op = "collect" =>
       /\ Started(proc[0])
       /\ RequestOf(0) = Descriptor(co.endpoint, Some(FirstQuery))
       /\ \A j \in LaterRequests :
             Started(proc[j]) =>
                /\ ManyPages /\ j + 1 <= TotalPages
                /\ RequestOf(j) = Descriptor(co.endpoint, Some(QueryOfPage(j + 1)))
       /\ \A i \in LaterRequests, j \in LaterRequests :
             (Started(proc[i]) /\ Started(proc[j]) /\ i # j)
             => ParseInt(Some(Nullish(Lookup(Nullish(RequestOf(i).query, <<>>), "page"), Val(<<>>)).text))
                # ParseInt(Some(Nullish(Lookup(Nullish(RequestOf(j).query, <<>>), "page"), Val(<<>>)).text))
       /\ (ManyPages /\ co.pc # "first" /\ cc.pc = "resolved")
             => \A n \in 2..TotalPages : Started(proc[n - 1])
       /\ (HasPayload(proc[0]) /\ ~ManyPages)
             => /\ \A j \in LaterRequests : ~Started(proc[j])
                /\ co.pc # "rejected"
                /\ co.pc = "resolved" => co.value = FirstDoc.data

\* C16 witness: the caller gave no query; the first answer reported 3 pages; the
\* requests of pages 2 and 3 were issued with limit=250 and their page, and
\* collect has returned.
C16_Witness ==
    /\ op = "collect" /\ co.pc = "resolved" /\ co.given.query = None
    /\ ManyPages /\ TotalPages = 3
    /\ RequestOf(0).query = Some(<< <<Key("limit"), Val(<<"2", "5", "0">>)>> >>)
    /\ RequestOf(1).query = Some(<< <<Key("limit"), Val(<<"2", "5", "0">>)>>,
                                    <<Key("page"), Val(<<"2">>)>> >>)
    /\ RequestOf(2).query = Some(<< <<Key("limit"), Val(<<"2", "5", "0">>)>>,
                                    <<Key("page"), Val(<<"3">>)>> >>)
    /\ \A j \in LaterRequests : j > 2 => ~Started(proc[j])

\* A first answer that reports a single page: no further request, and collect
\* returned its data.
SinglePageReturned ==
    /\ op = "collect" /\ co.pc = "resolved" /\ CollectionAnswer(proc[0]) /\ TotalPages = 1
    /\ co.value = Some(Data(TRUE, <<2, 3>>))
    /\ \A j \in LaterRequests : ~Started(proc[j])

\* the number of requests collect has issued
NumIssued == Cardinality({ i \in Procs : Started(proc[i]) })

\* the requests collect issues are at most total_pages of the first answer, and
\* one when that reports none
RequestsWithinTotalPages ==
    op = "collect" => NumIssued <= (IF ManyPages THEN TotalPages ELSE 1)

\* C17: collect terminates when every transport call is answered: once called
\* it returns or rejects; and the number of requests it issues is at most the
\* total_pages of the first answer (one request when that reports no pages).
C17_CollectTerminates ==
    /\ [](RequestsWithinTotalPages)
    /\ (op = "collect") ~> CollectDone

\* C17 witness: the first answer reported 3 pages, the request of page 2 was
\* retried after a 429, three requests were issued and collect has returned.
C17_Witness ==
    /\ op = "collect" /\ co.pc = "resolved" /\ TotalPages = 3 /\ NumIssued = 3
    /\ proc[1].nwaits = 1 /\ proc[1].ncalls = 2

----------------------------------------------------------------------------
(* Properties of collectV2().                                              *)

CollectV2Done == op = "collectV2" /\ co.pc \in {"resolved", "rejected"}

\* the pages collectV2 has requested
RequestedPages == { n \in 1..MaxPages : Started(proc[n - 1]) }
\* the request of page n
PageProc(n) == proc[n - 1]

\* the page answered with a non-empty list of items
ListAnswer(p) ==
    /\ HasPayload(p) /\ JsonParse(p.value).isArray /\ JsonParse(p.value).items # <<>>
\* the page answered no-content
NoContent(p) == p.pc = "fulfilled" /\ p.value = Undefined
\* the request of the page failed with a RequestError of status 404
NotFound(p) == p.pc = "rejected" /\ p.error.cls = "RequestError" /\ p.error.status = 404
\* the page gave an end signal
EndSignal(p) == NoContent(p) \/ NotFound(p)

\* As far as its pages have answered, the resource has P pages: the pages
\* 1..P answered with non-empty lists and the pages above P with end signals.
ResourceOfPages(P) ==
    \A n \in RequestedPages :
        Settled(PageProc(n)) =>
            IF n <= P THEN ListAnswer(PageProc(n)) ELSE EndSignal(PageProc(n))

RECURSIVE ListItemsOfPages(_)
\* the items of the lists of pages 1..n, page after page
ListItemsOfPages(n) ==
    IF n = 0 THEN <<>> ELSE ListItemsOfPages(n - 1) \o JsonParse(PageProc(n).value).items

\* collectV2 has returned, over a resource of P pages, the items of the pages
\* 1..P in page order
ReturnsAllPages ==
    \A P \in 0..MaxPages :
        (CollectV2Done /\ ResourceOfPages(P) /\ P <= Cardinality(RequestedPages))
        => /\ co.pc = "resolved"
           /\ co.value = Some(Data(TRUE, ListItemsOfPages(P)))

\* the exploration ends here: every requested page answered with a list and
\* the next window lies beyond MaxPages
BeyondMaxPages ==
    /\ op = "collectV2" /\ co.pc = "window"
    /\ \A n \in RequestedPages : ListAnswer(PageProc(n))
    /\ co.page + co.size - 1 > MaxPages

\* C18: over a resource whose pages 1..P answer with non-empty lists and whose
\* pages above P answer no-content or 404, collectV2 terminates and returns
\* the items of the pages 1..P in ascending page order, whatever the
\* concurrency (1, 2 or 3 here).
C18_CollectV2Terminates ==
    /\ [](ReturnsAllPages)
    /\ (op = "collectV2")
          ~> (CollectV2Done \/ BeyondMaxPages \/ ~(\E P \in 0..MaxPages : ResourceOfPages(P)))

\* C18 witness: concurrency 2, pages 1..3 answered 6 / 7, 8 / 6, page 4
\* answered 404, and collectV2 returned 6, 7, 8, 6.
C18_Witness ==
    /\ CollectV2Done /\ co.size = 2 /\ ResourceOfPages(3) /\ NotFound(PageProc(4))
    /\ PageProc(2).rank < PageProc(1).rank
    /\ co.pc = "resolved" /\ co.value = Some(Data(TRUE, <<6, 7, 8, 6>>))

\* Concurrency 1 and 3 terminate too, with no-content as the end.
C18_OtherConcurrencies ==
    \/ CollectV2Done /\ co.size = 1 /\ ResourceOfPages(2) /\ NoContent(PageProc(3))
       /\ co.value = Some(Data(TRUE, <<7, 8, 6>>)) 
    \/ CollectV2Done /\ co.size = 3 /\ ResourceOfPages(1) /\ NoContent(PageProc(2))
       /\ NotFound(PageProc(3)) /\ co.value = Some(Data(TRUE, <<6>>))

\* the last page of the window of page n
WindowEnd(n) == (((n - 1) \div co.size) + 1) * co.size
\* the pages of the window that settled last (collectV2 has moved page past it)
LastWindow == { n \in RequestedPages : n >= co.page - co.size }

\* after a window in which a page gave an end signal no further page is
\* requested
StopsAfterEndSignal ==
    op = "collectV2" =>
        \A n \in RequestedPages :
            EndSignal(PageProc(n)) => \A m \in RequestedPages : m <= WindowEnd(n)

\* collectV2 returns only after a window that contained an end signal
ReturnsOnlyAfterEndSignal ==
    (op = "collectV2" /\ co.pc = "resolved")
    => \E n \in LastWindow : EndSignal(PageProc(n))

\* C19: collectV2 stops at the first window containing an end signal: after a
\* window in which a page answered no-content or 404 no further request is
\* issued, and collectV2 never returns after a window without such an answer.
C19_StopsAtFirstEndSignal ==
    StopsAfterEndSignal /\ ReturnsOnlyAfterEndSignal

\* the page answered 200 with the body null
NullAnswer(p) == p.pc = "fulfilled" /\ p.value = NullText

\* What the code keeps: it returns only after a window in which a page gave an
\* end signal or answered with a falsy value.
ReturnsOnlyAfterFalsyOrNotFound ==
    (op = "collectV2" /\ co.pc = "resolved")
    => \E n \in LastWindow : EndSignal(PageProc(n)) \/ NullAnswer(PageProc(n))

\* collectV2 returned after a first window of one page that answered 200 null
ReturnedAfterNull ==
    /\ op = "collectV2" /\ co.pc = "resolved" /\ co.size = 1
    /\ RequestedPages = {1} /\ NullAnswer(PageProc(1))

\* a window without end signal, here with an empty list, is followed by the
\* next window
NextWindowAfterEmptyList ==
    /\ op = "collectV2" /\ co.size = 2 /\ RequestedPages = 1..4
    /\ JsonParse(PageProc(1).value) = List(<<>>) /\ ListAnswer(PageProc(2))

\* the request of the page failed, and not with a RequestError of status 404
FailedOtherwise(p) == p.pc = "rejected" /\ ~NotFound(p)

RECURSIVE CollectedItems(_)
\* the items of the pages among 1..n that answered with a list, page after
\* page
CollectedItems(n) ==
    IF n = 0 THEN <<>>
    ELSE CollectedItems(n - 1)
         \o (IF HasPayload(PageProc(n)) /\ JsonParse(PageProc(n).value).isArray
             THEN JsonParse(PageProc(n).value).items ELSE <<>>)

\* C20: in collectV2 a request that fails with a RequestError of status 404
\* ends the stream in both skip-errors modes: the 404 is never the error
\* collectV2 rejects with, no page beyond its window is requested, and
\* collectV2 returns the items collected (unless, skipErrors being false,
\* another request of the window failed with another error).
C20_NotFoundEndsStream ==
    op = "collectV2" =>
        /\ ~(co.pc = "rejected" /\ co.error.cls = "RequestError" /\ co.error.status = 404)
        /\ \A n \in RequestedPages :
              NotFound(PageProc(n)) =>
                /\ \A m \in RequestedPages : m <= WindowEnd(n)
                /\ ( /\ CollectV2Done
                     /\ SkipErrorsOf(options, cfg) \/ ~(\E m \in LastWindow : FailedOtherwise(PageProc(m))) )
                   => /\ co.pc = "resolved"
                      /\ co.value = Some(Data(TRUE, CollectedItems(Cardinality(RequestedPages))))

\* C20 witness: skipErrors false, concurrency 2; pages 1 and 2 answered with
\* lists, page 3 failed with 404 and page 4 answered with a list; collectV2
\* returned the items.
C20_Witness ==
    /\ CollectV2Done /\ ~SkipErrorsOf(options, cfg) /\ co.size = 2
    /\ ListAnswer(PageProc(1)) /\ ListAnswer(PageProc(2))
    /\ NotFound(PageProc(3)) /\ ListAnswer(PageProc(4))
    /\ co.pc = "resolved" /\ co.value = Some(Data(TRUE, <<6, 7, 8, 6>>))

\* The same with skipErrors true, beside a request that failed with 400 and
\* was skipped.
NotFoundEndsStreamSkipping ==
    /\ CollectV2Done /\ SkipErrorsOf(options, cfg) /\ co.size = 3
    /\ FailedOtherwise(PageProc(1)) /\ NotFound(PageProc(2)) /\ ListAnswer(PageProc(3))
    /\ co.pc = "resolved" /\ co.value = Some(Data(TRUE, <<6>>))

----------------------------------------------------------------------------
(* Properties of the operations side by side.                              *)

\* the requests of the run that are dispatched and not yet settled
InFlight == { i \in Procs : Started(proc[i]) /\ ~Settled(proc[i]) }

\* the effective concurrency of the run: the call's value, else the client's,
\* else 10
EffectiveConcurrency ==
    IF options.concurrency # None THEN Nullish(options.concurrency, 0)
    ELSE IF cfg.concurrency # None THEN Nullish(cfg.concurrency, 0)
    ELSE 10

\* C12: at every moment of a run of concurrent, collect, collectV2 or query
\* the requests of the run that are dispatched and not yet settled are at most
\* the effective concurrency.
C12_InFlightWithinConcurrency ==
    op \in {"concurrent", "collect", "collectV2", "query"}
    => Cardinality(InFlight) <= EffectiveConcurrency

\* C12 witness: query with concurrency 2 over three chunks; two requests are
\* in flight, one of them waiting to retry, and the third is not yet started.
C12_Witness ==
    /\ op = "query" /\ EffectiveConcurrency = 2 /\ Len(cc.requests) = 3
    /\ proc[1].pc = "inflight" /\ proc[2].pc = "wait" /\ ~Started(proc[3])

\* The bound is met by the other operations too.
FullBatchInFlight ==
    /\ op = "concurrent" /\ EffectiveConcurrency = 2 /\ Len(cc.requests) = 3
    /\ Cardinality(InFlight) = 2 /\ ~Started(proc[3])
FullBatchOfPagesInFlight ==
    /\ op = "collect" /\ EffectiveConcurrency = 1 /\ co.pc = "pages"
    /\ Cardinality(InFlight) = 1 /\ Settled(proc[1]) /\ ~Started(proc[3])
FullWindowInFlight ==
    /\ op = "collectV2" /\ EffectiveConcurrency = 3 /\ Cardinality(InFlight) = 3
    /\ ~Started(proc[3])

----------------------------------------------------------------------------
(* Properties of the last window of collectV2().                           *)

\* the number of items the pages up to n that answered with a list hold
ItemsBefore(n) == Len(CollectedItems(n - 1))

\* C21: in the window that ends collectV2 every page that answered with a list
\* contributes its items to the result, the pages above the page that gave the
\* end signal included: the result holds the items of every such page, at
\* their place in page order.
C21_WindowMembersContribute ==
    (op = "collectV2" /\ co.pc = "resolved")
    => /\ co.value = Some(Data(TRUE, co.results))
       /\ Len(co.results) = Len(CollectedItems(Cardinality(RequestedPages)))
       /\ \A n \in LastWindow :
             HasPayload(PageProc(n)) /\ JsonParse(PageProc(n).value).isArray
             => SubSeq(co.results, ItemsBefore(n) + 1, ItemsBefore(n + 1))
                = JsonParse(PageProc(n).value).items

\* C21 witness: concurrency 3; page 1 answered 6, page 2 answered no-content
\* and page 3 answered 7, 8; collectV2 returned 6, 7, 8.
C21_Witness ==
    /\ op = "collectV2" /\ co.pc = "resolved" /\ co.size = 3
    /\ ListAnswer(PageProc(1)) /\ NoContent(PageProc(2)) /\ ListAnswer(PageProc(3))
    /\ co.value = Some(Data(TRUE, <<6, 7, 8>>))

----------------------------------------------------------------------------
(* Properties of query().                                                  *)

\* the caller's query with limit = '250' unless the caller gave a limit
QueryBase ==
    IF Truthy(Lookup(GivenQuery, "limit")) THEN GivenQuery
    ELSE Assign(GivenQuery, "limit", Val(<<"2", "5", "0">>))

\* the number of chunks of the value list: the requests handed to concurrent
NumQueryChunks == Len(cc.requests)
\* the query of the request of chunk k, and the text its filter key is bound to
ChunkQuery(k) == Nullish(cc.requests[k].query, <<>>)
ChunkText(k) == ChunkQuery(k)[Len(ChunkQuery(k))][2].text

RECURSIVE ChunkTexts(_)
\* the texts of the chunks 1..n, joined with commas
ChunkTexts(n) ==
    IF n = 0 THEN <<>>
    ELSE IF n = 1 THEN ChunkText(1)
    ELSE ChunkTexts(n - 1) \o <<",">> \o ChunkText(n)

\* the values of the caller, joined with commas
ValuesText == IF co.given.values = <<>> THEN <<>> ELSE Join(co.given.values).text

RECURSIVE ItemsOfChunks(_)
\* the items of the answers of the chunks 1..n, chunk after chunk
ItemsOfChunks(n) ==
    IF n = 0 THEN <<>> ELSE ItemsOfChunks(n - 1) \o AnswerItems(proc[n])

\* C22: query issues one request per chunk of the value list and no other: the
\* request of chunk k has the caller's endpoint and query (with limit = 250
\* when the caller gave none) and the filter key bound to the comma-joined
\* values of the chunk, the chunks in order making up the value list; when
\* concurrent has run all its batches every chunk has its request (3 chunks
\* give 3 requests), and when every chunk was answered with a collection
\* query returns the items of the answers in chunk order.
C22_OneRequestPerChunk ==
    (op = "query" /\ co.error # ItemTooLarge)
    => /\ ChunkTexts(NumQueryChunks) = ValuesText
       /\ \A k \in 1..NumQueryChunks :
             /\ cc.requests[k].endpoint = co.endpoint
             /\ Len(ChunkQuery(k)) = Len(QueryBase) + 1
             /\ SubSeq(ChunkQuery(k), 1, Len(QueryBase)) = QueryBase
             /\ ChunkQuery(k)[Len(ChunkQuery(k))][1] = co.given.key
       /\ ~Started(proc[0])
       /\ \A j \in Procs \ {0} :
             Started(proc[j]) => j <= NumQueryChunks /\ RequestOf(j) = cc.requests[j]
       /\ cc.pc = "resolved" => NumIssued = NumQueryChunks
       /\ (co.pc = "resolved" /\ \A k \in 1..NumQueryChunks : CollectionAnswer(proc[k]))
          => co.value = Some(Data(TRUE, ItemsOfChunks(NumQueryChunks)))

\* C22 witness: the values a, bc, a with limit 1 make three chunks; three
\* requests were issued, with id:in bound to a, to bc and to a; the answers
\* held 2, 3 / 1 / 2, 3 and query returned 2, 3, 1, 2, 3.
C22_Witness ==
    /\ op = "query" /\ co.pc = "resolved" /\ NumQueryChunks = 3 /\ NumIssued = 3
    /\ ChunkText(1) = <<"a">> /\ ChunkText(2) = <<"b", "c">> /\ ChunkText(3) = <<"a">>
    /\ proc[3].rank < proc[2].rank
    /\ co.value = Some(Data(TRUE, <<2, 3, 1, 2, 3>>))

\* A chunk of two values: the key is bound to "a,bc".
TwoValuesInOneChunk ==
    /\ op = "query" /\ co.pc = "resolved" /\ NumQueryChunks = 1
    /\ ChunkText(1) = <<"a", ",", "b", "c">> /\ co.value = Some(Data(TRUE, <<1>>))

\* the number of values of chunk k: its text holds one comma less
ChunkCount(k) == Cardinality({ i \in 1..Len(ChunkText(k)) : ChunkText(k)[i] = "," }) + 1
\* the sum of the percent-encoded lengths of the values of chunk k (the joined
\* text without its commas)
ChunkEncoded(k) ==
    LET v == ChunkQuery(k)[Len(ChunkQuery(k))][2]
    IN  v.plain + 3 * (v.esc - (ChunkCount(k) - 1))
\* the offset of the chunking in query: the length of the URL with the query
\* entries other than limit, up to and with its question mark
OffsetOfQuery == QueryOffset(co.endpoint, QueryBase, cfg)
\* the ceiling on the values of a chunk: the caller's limit, or 250
ItemCeiling ==
    LET n == ParseInt(Some(Nullish(Lookup(QueryBase, "limit"), Val(<<>>)).text))
    IN  IF n.nan \/ n.val = 0 THEN 250 ELSE n.val

CutByCeiling ==
    /\ op = "query" /\ ItemCeiling = 2 /\ co.endpoint = Endpoint(16) /\ NumQueryChunks = 2
    /\ ChunkCount(1) = 2 /\ ChunkCount(2) = 1

\* a value of the caller is too large: its encoded length and the offset
\* together exceed the max length
SomeValueTooLarge ==
    \E i \in 1..Len(co.given.values) :
        co.given.values[i].plain + 3 * co.given.values[i].esc + OffsetOfQuery > 2048

\* C24: when the encoded length of a single value together with the offset
\* exceeds the max length, query fails with the error 'Item too large': no
\* chunk is made, of this value or of the others, and no request is issued;
\* and query fails so in no other case.
C24_ItemTooLargeFails ==
    op = "query" =>
       /\ SomeValueTooLarge
          => /\ co.pc = "rejected"
             /\ co.error.cls = "Error" /\ co.error.msg = "Item too large"
             /\ cc = IdleCC
             /\ \A i \in Procs : ~Started(proc[i])
       /\ (co.pc = "rejected" /\ co.error.msg = "Item too large") => SomeValueTooLarge

\* C24 witness: after an offset of 2047 the values a, bc: a fits and bc does
\* not; query has failed and no request was issued, not even for a.
C24_Witness ==
    /\ op = "query" /\ OffsetOfQuery = 2047
    /\ co.given.values = << Val(<<"a">>), Val(<<"b", "c">>) >>
    /\ co.pc = "rejected" /\ co.error.msg = "Item too large"
    /\ \A i \in Procs : ~Started(proc[i])

----------------------------------------------------------------------------
(* Properties of requestToken() and verify().                              *)

\* the callback data lacks its code, its scope or its context
FieldMissing ==
    Missing(auth.data.code) \/ Missing(auth.data.scope) \/ Missing(auth.data.context)

\* the messages that name a missing field
MissingFieldMessages ==
    { "No code found in query string", "No scope found in query string",
      "No context found in query string" }

\* C25: for each of its three input forms requestToken fails with an error
\* naming the missing field when code, scope or context is absent, before any
\* call of the token endpoint.
C25_MissingFieldFails ==
    (op = "requestToken" /\ FieldMissing)
    => /\ auth.calls = 0
       /\ auth.pc = "rejected"
       /\ auth.error.msg \in MissingFieldMessages

\* What the code keeps: a query string or a URLSearchParams that lacks a field
\* fails before any call of the token endpoint, with the error that names the
\* first field missing of code, scope, context, or, when only the context is
\* missing, with the scope mismatch found before.
MissingFieldFailsWhenParsed ==
    (op = "requestToken" /\ FieldMissing /\ auth.data.form \in {"string", "params"})
    => /\ auth.calls = 0
       /\ auth.pc = "rejected"
       /\ auth.error.msg \in MissingFieldMessages \cup {"Scope mismatch"}
       /\ Missing(auth.data.code) => auth.error.msg = "No code found in query string"
       /\ (~Missing(auth.data.code) /\ Missing(auth.data.scope))
          => auth.error.msg = "No scope found in query string"

\* An AuthQuery object without code was sent to the token endpoint.
ObjectWithoutCodePosted ==
    /\ op = "requestToken" /\ auth.data.form = "object" /\ auth.data.code = None
    /\ auth.calls = 1 /\ auth.request # None
    /\ Nullish(auth.request, TokenRequest(auth.data, auth.config)).code = None


\* The scopes the auth client expects, and the tokens of the granted scope
\* string of the call.
ExpectedScopes == Nullish(auth.config.scopes, <<>>)
GrantedText == Nullish(auth.data.scope, <<>>)
AllExpectedGranted ==
    /\ auth.data.scope # None
    /\ \A i \in 1..Len(ExpectedScopes) :
          \E j \in 1..Len(Split(GrantedText)) : Split(GrantedText)[j] = ExpectedScopes[i]

\* The call carries a granted scope string that the scope check gets to see:
\* a parsed query string has its code and a non-empty scope.
ScopeStringChecked ==
    /\ auth.data.scope # None
    /\ auth.data.form \in {"string", "params"}
          => ~Missing(auth.data.code) /\ ~Missing(auth.data.scope)

\* C26: with expected scopes configured, requestToken calls the token endpoint
\* only if every expected scope is one of the space-separated tokens of the
\* granted scope string; a granted scope string that lacks one fails with
\* 'Scope mismatch', naming the granted string and the expected scopes joined
\* by spaces, and no call is made; with no expected scopes no call fails with
\* 'Scope mismatch' and the granted string decides nothing.
C26_ScopeCheck ==
    op = "requestToken" =>
        /\ (auth.config.scopes # None /\ auth.calls >= 1) => AllExpectedGranted
        /\ (auth.config.scopes # None /\ ScopeStringChecked /\ ~AllExpectedGranted)
              => /\ auth.pc = "rejected"
                 /\ auth.calls = 0
                 /\ auth.error.msg = "Scope mismatch"
                 /\ auth.error.granted = GrantedText
                 /\ auth.error.expected = JoinSpaces(ExpectedScopes)
        /\ (auth.config.scopes # None /\ ScopeStringChecked /\ AllExpectedGranted)
              => auth.error.msg # "Scope mismatch"
        /\ auth.config.scopes = None
              => /\ auth.error.msg \notin {"Scope mismatch", "TypeError"}
                 /\ (auth.data.form = "object" \/ (ScopeStringChecked /\ ~Missing(auth.data.context)))
                       => auth.calls = 1

\* A granted string "ab" does not grant the expected scope "a".
C26_Witness ==
    /\ op = "requestToken"
    /\ auth.config.scopes = Some(<< <<"a">> >>)
    /\ auth.data.scope = Some(<<"a", "b">>)
    /\ ~Missing(auth.data.code)
    /\ auth.pc = "rejected"
    /\ auth.error.msg = "Scope mismatch"
    /\ auth.error.granted = <<"a", "b">>
    /\ auth.error.expected = <<"a">>

\* The scopes a and b are expected, "b c a" is granted: the token endpoint is
\* called.
ExtraScopesAccepted ==
    /\ op = "requestToken"
    /\ auth.config.scopes = Some(<< <<"a">>, <<"b">> >>)
    /\ auth.data.scope = Some(<<"b", " ", "c", " ", "a">>)
    /\ auth.calls = 1
    /\ auth.pc = "resolved"

\* Two scopes expected, one granted: the error names "a" and "a b".
OneOfTwoScopesGranted ==
    /\ op = "requestToken"
    /\ auth.data.scope = Some(<<"a">>)
    /\ auth.error.msg = "Scope mismatch"
    /\ auth.error.expected = <<"a", " ", "b">>


\* Every check of the session token passes: it is well formed, signed with the
\* client secret, issued by ISSUER for the client and the store, and not
\* expired.
AllJwtChecksPass ==
    /\ auth.jwt.wellFormed
    /\ auth.jwt.key = auth.config.secret
    /\ auth.jwt.aud = auth.config.clientId
    /\ auth.jwt.iss = ISSUER
    /\ auth.jwt.sub = "stores/" \o auth.storeHash
    /\ auth.jwt.exp > now

\* The causes for which jose rejects a token.
JwtFailureCauses ==
    { "JWSInvalid", "JWSSignatureVerificationFailed", "JWTClaimValidationFailed: iss",
      "JWTClaimValidationFailed: sub", "JWTClaimValidationFailed: aud", "JWTExpired" }

\* C27: verify returns the claims exactly when all checks of the token pass;
\* otherwise it fails, and whatever the cause (malformed token, signature,
\* issuer, subject, audience, expiry) the error has the one message
\* 'Invalid JWT payload' and no other text for the caller.
C27_UniformJwtFailure ==
    op = "verify" =>
        /\ auth.pc \in {"resolved", "rejected"}
        /\ auth.pc = "resolved" <=> AllJwtChecksPass
        /\ auth.pc = "resolved" => auth.value = Some("claims") /\ auth.error = NoAuthError
        /\ auth.pc = "rejected"
              => /\ auth.error.msg = "Invalid JWT payload"
                 /\ auth.error.granted = <<>> /\ auth.error.expected = <<>>
                 /\ auth.error.cause \in JwtFailureCauses
                 /\ auth.value = None

\* A token for another client, valid otherwise, is rejected as any other.
C27_Witness ==
    /\ op = "verify"
    /\ auth.jwt.wellFormed /\ auth.jwt.key = auth.config.secret /\ auth.jwt.iss = ISSUER
    /\ auth.jwt.sub = "stores/" \o auth.storeHash /\ auth.jwt.exp > now
    /\ auth.jwt.aud # auth.config.clientId
    /\ auth.pc = "rejected"
    /\ auth.error.msg = "Invalid JWT payload"
    /\ auth.error.cause = "JWTClaimValidationFailed: aud"

\* A valid token is verified.
JwtVerified == op = "verify" /\ auth.pc = "resolved" /\ AllJwtChecksPass

\* An expired token with a foreign signature is rejected for the signature.
RejectedForSignature ==
    op = "verify" /\ auth.jwt.exp <= now /\ auth.error.cause = "JWSSignatureVerificationFailed"
RejectedForExpiry == op = "verify" /\ auth.error.cause = "JWTExpired"
RejectedForIssuer == op = "verify" /\ auth.error.cause = "JWTClaimValidationFailed: iss"
RejectedForSubject == op = "verify" /\ auth.error.cause = "JWTClaimValidationFailed: sub"
RejectedMalformed == op = "verify" /\ auth.error.cause = "JWSInvalid"


\* The last answer of the transport to request p.
LastAnswer(p) == p.history[Len(p.history)]

\* C28: every failure of request is a RequestError with a status: for the
\* non-2xx answers, and for the failures of the transport that have no HTTP
\* response.
C28_FailuresAreRequestErrors ==
    \A i \in Procs :
        proc[i].pc = "rejected"
        => /\ proc[i].error.cls = "RequestError"
           /\ proc[i].error.status # 0

\* Every failure but that of the transport itself is a RequestError with a
\* status: these are the non-2xx answers, with the status of the answer and
\* the payload {data, headers}, the 2xx answers that do not parse, a URL that
\* is too long, and the loop that ends without an attempt.
FailuresWithAnswerAreRequestErrors ==
    \A i \in Procs :
        LET p == proc[i] IN
        (p.pc = "rejected" /\ ~(p.history # <<>> /\ LastAnswer(p).kind = "net"))
        => /\ p.error.cls = "RequestError"
           /\ p.error.status # 0
           /\ (p.history # <<>> /\ LastAnswer(p).kind = "http")
                 => /\ p.error.status = LastAnswer(p).status
                    /\ p.error.dataObject
                    /\ p.error.resp = LastAnswer(p)

\* The transport fails without a response and request rejects with the error
\* of the transport: no RequestError, no status.
TransportFailureLeaked ==
    \E i \in Procs :
        /\ proc[i].pc = "rejected"
        /\ proc[i].history # <<>>
        /\ LastAnswer(proc[i]).kind = "net"
        /\ proc[i].error.cls = "Error"
        /\ proc[i].error.status = 0


\* C29: when the last answer to a request is a 2xx, the request settles with
\* it and makes no further call: a 204 gives undefined, any
\* other 2xx whose body parses gives the parsed body, and one whose body does
\* not parse fails with a RequestError that has the status of the answer, the
\* message 'Failed to parse response' and the text of the body as its data.
C29_SuccessBodies ==
    \A i \in Procs :
        LET p == proc[i]
            n == Len(p.history)
        IN  (Started(p) /\ n >= 1 /\ p.history[n].kind = "ok")
            => /\ p.ncalls = n /\ p.nwaits = n - 1
               /\ p.history[n].status = 204
                     => p.pc = "fulfilled" /\ p.value = Undefined
               /\ (p.history[n].status # 204 /\ Parses(p.history[n].body))
                     => /\ p.pc = "fulfilled"
                        /\ p.value # Undefined
                        /\ JsonParse(p.value) = JsonParse(p.history[n].body)
               /\ (p.history[n].status # 204 /\ ~Parses(p.history[n].body))
                     => /\ p.pc = "rejected"
                        /\ p.error.cls = "RequestError"
                        /\ p.error.status = p.history[n].status
                        /\ p.error.status \in 200..299
                        /\ p.error.msg = "Failed to parse response"
                        /\ ~p.error.dataObject
                        /\ p.error.resp = p.history[n]

\* After one retry a 200 answer with an HTML body fails the request, with
\* retries left.
C29_Witness ==
    /\ proc[1].pc = "rejected"
    /\ MaxRetriesOf(proc[1]) = 2
    /\ proc[1].history = << Response("http", 429, Some(<<"0">>), "{..}"),
                            Response("ok", 200, None, "<html>") >>
    /\ proc[1].error.status = 200
    /\ proc[1].error.resp.body = "<html>"
    /\ proc[1].ncalls = 2

\* A 204 answer gives undefined.
NoContentGivesUndefined ==
    /\ proc[1].pc = "fulfilled"
    /\ LastAnswer(proc[1]).status = 204
    /\ proc[1].value = Undefined


\* Every request made so far was made for the store and with the credential
\* of the client's config.
RequestsCarryConfig ==
    \A i \in Procs :
        Started(proc[i])
        => /\ OptsOf(proc[i]).storeHash = cfg.storeHash
           /\ OptsOf(proc[i]).accessToken = cfg.accessToken

\* C30: no operation of the client changes its config (store, credential,
\* policies), and every request, hence every transport call, is made for the
\* configured store with the configured credential, also when the descriptor
\* handed to concurrent names another store and credential.
C30_ConfigPrevails == [][cfg' = cfg]_vars /\ []RequestsCarryConfig

\* concurrent was given a descriptor for another store with another
\* credential; its request was sent to the client's store and answered.
C30_Witness ==
    /\ op = "concurrent"
    /\ cc.requests # <<>>
    /\ cc.requests[1].storeHash = Some(OtherStoreHash)
    /\ cc.requests[1].accessToken = Some("other")
    /\ proc[1].ncalls >= 1
    /\ proc[1].pc = "fulfilled"
    /\ OptsOf(proc[1]).storeHash = StoreHash
    /\ OptsOf(proc[1]).accessToken = "token"


\* C31: when every value fits on its own, each request that query issues has
\* a URL of at most MAX_URL_LENGTH characters, and none is rejected with
\* 'URL too long'.
C31_QueryUrlsWithinLimit ==
    (op = "query" /\ co.error # ItemTooLarge)
    => \A j \in Procs :
          Started(proc[j])
          => /\ FullUrlLen(OptsOf(proc[j])) <= MAX_URL_LENGTH
             /\ proc[j].error # UrlTooLongError

\* A chunk of a single value that fits on its own is rejected by the request
\* engine: the URL has the limit parameter and the key besides the offset.
ChunkRequestTooLong ==
    /\ op = "query"
    /\ Len(co.given.values) = 1
    /\ Len(cc.requests) = 1
    /\ proc[1].pc = "rejected"
    /\ proc[1].error = UrlTooLongError
    /\ proc[1].ncalls = 0
    /\ FullUrlLen(OptsOf(proc[1])) > MAX_URL_LENGTH


\* the page parameter of the request of page n
PageParam(n) == Lookup(Nullish(OptsOf(PageProc(n)).query, <<>>), "page")

\* Every window so far is complete: the pages requested are those of the
\* windows 1..m of co.size pages each, page n was requested with page = n as a
\* v2 request on the caller's endpoint, and no request of a page that has
\* answered is made again.
WindowsAreBlocks ==
    op = "collectV2" =>
        /\ \E m \in 1..MaxPages :
              /\ RequestedPages = 1..(m * co.size)
              /\ co.page = m * co.size + 1
        /\ Cardinality(RequestedPages) % co.size = 0
        /\ \A n \in RequestedPages :
              /\ OptsOf(PageProc(n)).version = Some("v2")
              /\ OptsOf(PageProc(n)).endpoint = co.endpoint
              /\ PageParam(n) = Some(Val(Numeral(n)))
        /\ \A n \in RequestedPages :
              EndSignal(PageProc(n)) =>
                  Cardinality({ m \in RequestedPages : m > n }) <= co.size - 1

\* A request that was made is not made again: its descriptor stays, and once
\* it has settled its record stays.
RequestedOnce ==
    \A i \in Procs :
        Started(proc[i])
        => /\ proc'[i].opts = proc[i].opts
           /\ proc'[i].ncalls >= proc[i].ncalls
           /\ Settled(proc[i]) => proc'[i] = proc[i]

\* C32: in collectV2 with concurrency c window k is the pages (k-1)*c+1 ..
\* k*c, each requested as a v2 request for its page; a page is requested at
\* most once and the pages requested are always 1..m*c, so their number is a
\* multiple of c, and at most c-1 pages beyond a page that gave an end signal
\* are requested.
C32_WindowsOfPages == []WindowsAreBlocks /\ [][RequestedOnce]_vars

\* Concurrency 2: the 204 of page 3 ended the stream, page 4 of the same
\* window was requested and answered too, and no page was requested twice.
C32_Witness ==
    /\ CollectV2Done /\ co.size = 2
    /\ RequestedPages = 1..4
    /\ NoContent(PageProc(3))
    /\ ListAnswer(PageProc(4))
    /\ PageProc(4).ncalls = 1
    /\ OptsOf(PageProc(4)).version = Some("v2")


\* the number of pages that the answer to the request of the only chunk
\* reports
ReportedPages == Nullish(JsonParse(proc[1].value).total_pages, 0)

\* C33: when the values make one chunk and the answer to its request reports
\* P pages, query has requested every one of the P pages before it returns,
\* as collect does.
C33_QueryFollowsPages ==
    (op = "query" /\ co.pc = "resolved" /\ NumQueryChunks = 1
        /\ CollectionAnswer(proc[1]) /\ Paginated(JsonParse(proc[1].value)))
    => NumIssued = ReportedPages

\* query over one chunk has returned the items of the first page of a
\* filtered result of MaxTotalPages pages, after a single request.
QueryReturnsFirstPageOnly ==
    /\ op = "query" /\ co.pc = "resolved" /\ NumQueryChunks = 1
    /\ ReportedPages = MaxTotalPages
    /\ NumIssued = 1
    /\ co.value = Some(Data(TRUE, AnswerItems(proc[1])))

\* collect on an answer of that kind asks for the pages 2..MaxTotalPages.
CollectFollowsPages ==
    /\ op = "collect" /\ co.pc = "resolved"
    /\ Nullish(JsonParse(proc[0].value).total_pages, 0) = MaxTotalPages
    /\ \A i \in 0..(MaxTotalPages - 1) : proc[i].pc = "fulfilled"


\* the chunks that chunkStrLength makes of the values of the call
QueryChunks ==
    ChunkStrLength(co.given.values,
                   QueryOffset(co.endpoint, Nullish(options.query, <<>>), cfg),
                   ChunkLength(Nullish(options.query, <<>>))).chunks

RECURSIVE Concatenated(_)
\* the chunks one after the other
Concatenated(chunks) ==
    IF chunks = <<>> THEN <<>> ELSE Head(chunks) \o Concatenated(Tail(chunks))

\* C34: unless a value is too large, the chunks of chunkStrLength put one
\* after the other are the list of values it was given (each value in one
\* chunk, in its place), no chunk is empty and the empty list gives no chunk;
\* query makes its requests of these chunks, and for the empty list it makes
\* no request and returns the empty list.
C34_ChunksPartitionValues ==
    (op = "query" /\ co.error # ItemTooLarge)
    => /\ Concatenated(QueryChunks) = co.given.values
       /\ \A k \in 1..Len(QueryChunks) : QueryChunks[k] # <<>>
       /\ co.given.values = <<>> => QueryChunks = <<>>
       /\ Len(cc.requests) = Len(QueryChunks)
       /\ \A k \in 1..Len(QueryChunks) : ChunkText(k) = Join(QueryChunks[k]).text
       /\ co.given.values = <<>>
             => /\ NumIssued = 0
                /\ co.pc \in {"chunks", "resolved"}
                /\ co.pc = "resolved" => co.value = Some(Data(TRUE, <<>>))

\* The values a, bc, a were cut into the chunks a, bc and a by the length of
\* the URL, and each chunk has its request.
C34_Witness ==
    /\ op = "query"
    /\ Len(co.given.values) = 3
    /\ co.given.query = None
    /\ Len(QueryChunks) = 2
    /\ Len(QueryChunks[1]) = 2 /\ Len(QueryChunks[2]) = 1
    /\ cc.pc = "resolved"
    /\ NumIssued = 2

\* query of no values has returned the empty list without a request.
EmptyQueryReturnsEmpty ==
    /\ op = "query" /\ co.given.values = <<>>
    /\ co.pc = "resolved" /\ co.value = Some(Data(TRUE, <<>>))
    /\ NumIssued = 0


\* the positions of the requests that failed, and the lowest of them
FailedRequests == { j \in Requests : proc[j].pc = "rejected" }
LowestFailed == CHOOSE j \in FailedRequests : \A i \in FailedRequests : j <= i

\* C35: when concurrent rejects in fail-fast mode, its error is that of the
\* failed request at the lowest position; the failed requests all belong to
\* one batch, the first with a failure, every request of which has settled;
\* before that batch has settled concurrent has not rejected.
C35_LowestFailureOfBatch ==
    (op = "concurrent" /\ FailFast) =>
       /\ cc.pc = "rejected"
          => /\ FailedRequests # {}
             /\ cc.error = proc[LowestFailed].error
             /\ \A j \in FailedRequests : BatchOf(j) = BatchOf(LowestFailed)
             /\ \A j \in Requests :
                   /\ BatchOf(j) < BatchOf(LowestFailed) => proc[j].pc = "fulfilled"
                   /\ BatchOf(j) = BatchOf(LowestFailed) => Settled(proc[j])
       /\ (\E j \in Requests : Started(proc[j]) /\ ~Settled(proc[j])) => cc.pc = "awaiting"

\* Two requests of one batch were answered with different failures, the
\* second before the first: concurrent rejected with the failure of the
\* first.
C35_Witness ==
    /\ op = "concurrent" /\ FailFast /\ cc.pc = "rejected"
    /\ cc.size >= 2 /\ NumRequests >= 2
    /\ proc[1].pc = "rejected" /\ proc[2].pc = "rejected"
    /\ proc[1].ncalls >= 1 /\ proc[2].ncalls >= 1
    /\ proc[2].rank < proc[1].rank
    /\ proc[1].error # proc[2].error
    /\ cc.error = proc[1].error


\* the pages whose requests failed otherwise than with a 404, and the lowest
OtherwiseFailedPages == { n \in RequestedPages : FailedOtherwise(PageProc(n)) }
LowestOtherwiseFailed ==
    CHOOSE n \in OtherwiseFailedPages : \A m \in OtherwiseFailedPages : n <= m

\* C36: in collectV2 without skipErrors a request of a window that fails
\* otherwise than with a 404 makes collectV2 reject with that failure (the one
\* at the lowest page when several failed): it never returns items then, also
\* when a page of the window gave an end signal, and requests no later window;
\* it rejects for no other reason.  With skipErrors collectV2 never rejects
\* for such a failure: the failed page adds no items, and the stream ends only
\* with a window in which a page answered with an end of data.
C36_OtherFailuresInCollectV2 ==
    op = "collectV2" =>
        /\ ~SkipErrorsOf(options, cfg) =>
              /\ OtherwiseFailedPages # {}
                    => /\ co.pc \in {"window", "rejected"}
                       /\ \A m \in RequestedPages : m <= WindowEnd(LowestOtherwiseFailed)
                       /\ (\A m \in RequestedPages : Settled(PageProc(m)))
                             => ENABLED WindowSettled \/ co.pc = "rejected"
              /\ co.pc = "rejected"
                    => /\ OtherwiseFailedPages # {}
                       /\ co.error = PageProc(LowestOtherwiseFailed).error
                       /\ co.value = None
        /\ SkipErrorsOf(options, cfg) =>
              /\ co.pc # "rejected"
              /\ co.pc = "resolved"
                    => /\ co.value = Some(Data(TRUE, CollectedItems(Cardinality(RequestedPages))))
                       /\ \E n \in LastWindow : EndSignal(PageProc(n)) \/ NullAnswer(PageProc(n))

\* Without skipErrors, concurrency 2: page 1 answered no-content and page 2
\* failed with 400; collectV2 rejected with the 400.
C36_Witness ==
    /\ CollectV2Done /\ ~SkipErrorsOf(options, cfg) /\ co.size = 2
    /\ NoContent(PageProc(1))
    /\ FailedOtherwise(PageProc(2)) /\ PageProc(2).error.status = 400
    /\ co.pc = "rejected" /\ co.error = PageProc(2).error
    /\ co.value = None

\* With skipErrors, concurrency 1: page 1 failed with 400 and was skipped,
\* page 2 was requested and answered with a list, page 3 ended the stream.
SkippedFailureGoesOn ==
    /\ CollectV2Done /\ SkipErrorsOf(options, cfg) /\ co.size = 1
    /\ FailedOtherwise(PageProc(1)) /\ ListAnswer(PageProc(2)) /\ EndSignal(PageProc(3))
    /\ co.pc = "resolved"
    /\ co.value = Some(Data(TRUE, JsonParse(PageProc(2).value).items))


RECURSIVE ItemsOfSucceededPages(_)
\* the items of the pages among 1..n whose requests succeeded, page after page
ItemsOfSucceededPages(n) ==
    IF n = 0 THEN <<>>
    ELSE ItemsOfSucceededPages(n - 1)
         \o (IF proc[n - 1].pc = "fulfilled" THEN AnswerItems(proc[n - 1]) ELSE <<>>)

\* C37: in collect with skipErrors a failure of the request of page 1 makes
\* collect reject with it, and no other request is made; when page 1 reports
\* N >= 2 pages and every later page that succeeded answered with a
\* collection, collect returns the items of page 1 followed by the items of
\* those later pages whose requests succeeded, in page order, after every
\* page has settled.
C37_FirstPageFailureNotSkipped ==
    (op = "collect" /\ SkipErrorsOf(options, cfg)) =>
        /\ proc[0].pc = "rejected"
              => /\ co.pc \in {"first", "rejected"}
                 /\ co.pc = "rejected" => co.error = proc[0].error
                 /\ NumIssued = 1
        /\ co.pc = "rejected" => (proc[0].pc = "rejected" \/ co.error = TypeError)
        /\ ( /\ CollectDone /\ ManyPages
             /\ \A n \in 2..TotalPages :
                   proc[n - 1].pc = "fulfilled" => CollectionAnswer(proc[n - 1]) )
           => /\ co.pc = "resolved"
              /\ \A n \in 2..TotalPages : Settled(proc[n - 1])
              /\ co.value = Some(Data(TRUE, ItemsOfSucceededPages(TotalPages)))

\* With skipErrors, page 1 reported three pages, page 2 failed with 400 and
\* page 3 answered: collect returned the items of pages 1 and 3.
C37_Witness ==
    /\ op = "collect" /\ SkipErrorsOf(options, cfg) /\ co.pc = "resolved"
    /\ ManyPages /\ TotalPages = 3
    /\ proc[1].pc = "rejected" /\ proc[1].error.status = 400
    /\ CollectionAnswer(proc[2])
    /\ co.value = Some(Data(TRUE, AnswerItems(proc[0]) \o AnswerItems(proc[2])))

\* With skipErrors, the request of page 1 failed and collect rejected.
FirstPageFailureRejects ==
    /\ op = "collect" /\ SkipErrorsOf(options, cfg)
    /\ proc[0].pc = "rejected" /\ proc[0].error.status = 400
    /\ co.pc = "rejected" /\ co.error = proc[0].error


\* the answer is a 429 that request accepts for a retry: its retry-after
\* parses and is within maxDelay
AcceptedForRetry(r, p) ==
    /\ Is429(r)
    /\ ~ParseInt(r.hdr).nan
    /\ ParseInt(r.hdr).val <= MaxDelayOf(p)

\* C38: request waits once for every 429 it accepts for a retry, the last one
\* included: a request whose last answer was such a 429 and that has failed
\* has used up its budget, has made as many calls as waits, failed no earlier
\* than the wait of that 429 was over, and made no call after it.
C38_FinalWaitBeforeFailing ==
    \A i \in Procs :
        LET p == proc[i]
            n == Len(p.history)
        IN  Started(p) =>
              /\ p.nwaits = Cardinality({ j \in 1..n : AcceptedForRetry(p.history[j], p) })
              /\ (n >= 1 /\ AcceptedForRetry(p.history[n], p) /\ n >= MaxRetriesOf(p))
                    => p.ncalls = n
              /\ (n >= 1 /\ AcceptedForRetry(p.history[n], p) /\ p.ncalls = n)
                    => /\ p.pc \in {"wait", "rejected"}
                       /\ p.wakeAt = p.recvAt + Max(ParseInt(p.history[n].hdr).val, 0)
                       /\ p.pc = "rejected"
                             => /\ n = MaxRetriesOf(p)
                                /\ p.ncalls = n /\ p.nwaits = n
                                /\ now >= p.wakeAt
                                /\ p.error.status = 429 /\ p.error.resp = p.history[n]

\* A budget of two: two 429s with retry-after 1 each, two waits, no third
\* call, and the failure no earlier than time 2.
C38_Witness ==
    /\ proc[1].pc = "rejected" /\ MaxRetriesOf(proc[1]) = 2
    /\ proc[1].history = << Response("http", 429, Some(<<"1">>), "{..}"),
                            Response("http", 429, Some(<<"1">>), "{..}") >>
    /\ proc[1].ncalls = 2 /\ proc[1].nwaits = 2
    /\ now >= 2


NoBudgetLongUrl ==
    /\ op = "get"
    /\ cfg.maxRetries = Some(0)
    /\ UrlTooLong(OptsOf(proc[1]))
    /\ proc[1].pc = "rejected" /\ proc[1].error = GenericError


\* collect, collectV2 or query has been called with the caller's options
Collecting == op \in {"collect", "collectV2", "query"}

\* the caller's options agree with the options as given in every entry but query
OtherEntriesKept ==
    /\ DOMAIN options = DOMAIN co.given
    /\ \A f \in DOMAIN co.given \ {"query"} : options[f] = co.given[f]

\* the entries of the caller's query other than limit are the given ones, in
\* their places
OtherQueryEntriesKept ==
    LET q == Nullish(options.query, <<>>) IN
    /\ \A i \in 1..Len(GivenQuery) :
          /\ i <= Len(q) /\ q[i][1] = GivenQuery[i][1]
          /\ GivenQuery[i][1].text # "limit" => q[i] = GivenQuery[i]
    /\ \A i \in 1..Len(q) : i > Len(GivenQuery) => q[i][1].text = "limit"
    /\ Len(q) <= Len(GivenQuery) + 1

\* C40 as stated: from the call of collect, collectV2 or query on, the
\* caller's options has query.limit = '250' when the caller gave no query or
\* no limit, a limit the caller gave is the limit still, and no other entry of
\* the options or of the query has changed.
C40_CallerLimitNeverOverwritten ==
    Collecting =>
        /\ options.query # None
        /\ ~HasKey(GivenQuery, "limit")
              => Lookup(Nullish(options.query, <<>>), "limit") = Some(Val(<<"2", "5", "0">>))
        /\ HasKey(GivenQuery, "limit")
              => Lookup(Nullish(options.query, <<>>), "limit") = Lookup(GivenQuery, "limit")
        /\ OtherEntriesKept
        /\ OtherQueryEntriesKept

\* C40, amended: the same, but a limit the caller gave as the empty string
\* counts as no limit: it is replaced by '250'; only a limit that is not
\* empty is kept.
C40_CallerOptionsDefaulted ==
    Collecting =>
        /\ options.query # None
        /\ ~Truthy(Lookup(GivenQuery, "limit"))
              => Lookup(Nullish(options.query, <<>>), "limit") = Some(Val(<<"2", "5", "0">>))
        /\ Truthy(Lookup(GivenQuery, "limit"))
              => options.query = co.given.query
        /\ OtherEntriesKept
        /\ OtherQueryEntriesKept

\* query was called with {sort: 'id', limit: '2'}, a key and values, and has
\* resolved: the caller's options are as given.
C40_Witness ==
    /\ op = "query" /\ co.pc = "resolved"
    /\ Len(GivenQuery) = 2 /\ Truthy(Lookup(GivenQuery, "limit"))
    /\ co.given.values # <<>>
    /\ options = co.given

\* collectV2 was called without a query and has resolved: the caller's
\* options now has query = {limit: '250'}.
CollectV2OptionsGotLimit ==
    /\ op = "collectV2" /\ co.pc = "resolved"
    /\ co.given.query = None
    /\ options.query = Some(<< <<Key("limit"), Val(<<"2", "5", "0">>)>> >>)

\* collect was called with {limit: ''}: the caller's limit is '250' now.
EmptyLimitOverwritten ==
    /\ op = "collect"
    /\ Lookup(GivenQuery, "limit") = Some(Val(<<>>))
    /\ Lookup(Nullish(options.query, <<>>), "limit") = Some(Val(<<"2", "5", "0">>))

====
